---- MODULE Spec2Model ----
(***************************************************************************)
(* Model of the standardization pipeline (src/src/core/pipeline.py and the *)
(* stages it sequences).                                                     *)
(*                                                                           *)
(* Strings are sequences of one-character strings, so that substring tests, *)
(* trimming, splitting and lengths are computed and not assumed.  A scalar  *)
(* value of a dataset cell, of a rule default or of a target field is a     *)
(* record [t, s, n]: t = "null" (None / NaN), t = "str" (s holds the text), *)
(* t = "int" (n holds the number), t = "uuid" (the n-th identifier drawn    *)
(* from uuid.uuid4 in this run).                                             *)
(***************************************************************************)
EXTENDS Integers, Sequences, FiniteSets, TLC

\* ------------------------------------------------------------------ bounds

\* Largest number of data rows of an input file.
MaxRows == 2

\* ------------------------------------------------------------------ values

Null == [t |-> "null", s |-> <<>>, n |-> 0]
Str(chars) == [t |-> "str", s |-> chars, n |-> 0]
Int_(k) == [t |-> "int", s |-> <<>>, n |-> k]
Uuid(k) == [t |-> "uuid", s |-> <<>>, n |-> k]

\* n copies of character c (used to write long texts).
Rep(c, n) == [i \in 1..n |-> c]

Digits == <<"0", "1", "2", "3", "4", "5", "6", "7", "8", "9">>

IsDigit(c) == \E i \in 1..10 : Digits[i] = c

DigitVal(c) == (CHOOSE i \in 1..10 : Digits[i] = c) - 1

\* Decimal text of a natural number.
RECURSIVE NatToStr(_)
NatToStr(k) ==
    IF k < 10 THEN <<Digits[k + 1]>>
    ELSE NatToStr(k \div 10) \o <<Digits[(k % 10) + 1]>>

\* Value of a non-empty sequence of digits.
RECURSIVE DigitsToNat(_)
DigitsToNat(ds) ==
    IF Len(ds) = 0 THEN 0
    ELSE 10 * DigitsToNat(SubSeq(ds, 1, Len(ds) - 1)) + DigitVal(ds[Len(ds)])

\* str.strip(): leading and trailing blanks removed.
RECURSIVE Strip(_)
Strip(cs) ==
    IF Len(cs) = 0 THEN cs
    ELSE IF cs[1] = " " THEN Strip(Tail(cs))
    ELSE IF cs[Len(cs)] = " " THEN Strip(SubSeq(cs, 1, Len(cs) - 1))
    ELSE cs

\* x in s for a one-character x.
HasChar(cs, c) == \E i \in 1..Len(cs) : cs[i] = c

\* sub in s (Python substring test).
Contains(cs, sub) ==
    \E i \in 0..(Len(cs) - Len(sub)) :
        \A j \in 1..Len(sub) : cs[i + j] = sub[j]

\* s.replace(a, b) for one-character a and b.
ReplaceChar(cs, a, b) == [i \in 1..Len(cs) |-> IF cs[i] = a THEN b ELSE cs[i]]

\* --------------------------------------------------- Python value semantics

\* int(text): blanks trimmed, an optional sign, then digits only.
ParseInt(cs) ==
    LET s0 == Strip(cs)
        neg == Len(s0) > 0 /\ s0[1] = "-"
        signed == Len(s0) > 0 /\ s0[1] \in {"-", "+"}
        ds == IF signed THEN Tail(s0) ELSE s0
        good == Len(ds) > 0 /\ \A i \in 1..Len(ds) : IsDigit(ds[i])
    IN  IF good
        THEN [ok |-> TRUE, n |-> IF neg THEN 0 - DigitsToNat(ds) ELSE DigitsToNat(ds)]
        ELSE [ok |-> FALSE, n |-> 0]

\* str(int)
IntToStr(k) == IF k < 0 THEN <<"-">> \o NatToStr(0 - k) ELSE NatToStr(k)

S_None == <<"N", "o", "n", "e">>

\* str(value) of Python: None gives the text None, a number its decimal text.
py_str(v) ==
    CASE v.t = "null" -> Str(S_None)
      [] v.t = "int" -> Str(IntToStr(v.n))
      [] OTHER -> v

\* int(value) that takes a text with a fraction for its whole part.
py_int_truncating(v) ==
    CASE v.t = "int" -> [ok |-> TRUE, n |-> v.n]
      [] v.t = "str" ->
           IF HasChar(v.s, ".")
           THEN ParseInt(SubSeq(v.s, 1, (CHOOSE i \in 1..Len(v.s) : v.s[i] = "."
                                            /\ \A j \in 1..(i - 1) : v.s[j] # ".") - 1))
           ELSE ParseInt(v.s)
      [] OTHER -> [ok |-> FALSE, n |-> 0]

\* int(value): [ok, n]; not ok stands for ValueError / TypeError.
py_int(v) ==
    CASE v.t = "int" -> [ok |-> TRUE, n |-> v.n]
      [] v.t = "str" -> ParseInt(v.s)
      [] OTHER -> [ok |-> FALSE, n |-> 0]

\* Truth value of a Python scalar: None, "" and 0 are false.
py_truthy(v) ==
    CASE v.t = "null" -> FALSE
      [] v.t = "str" -> Len(v.s) > 0
      [] v.t = "int" -> v.n # 0
      [] OTHER -> TRUE

\* pd.isna(value) for a scalar.
pd_isna(v) == v.t = "null"

\* isinstance(value, str)
py_isstr(v) == v.t \in {"str", "uuid"}

\* dict.get(key) on a row: None when the key is absent.
DictGet(rec, key) == IF key \in DOMAIN rec THEN rec[key] ELSE Null

\* ------------------------------------------------- Transformation Applier

rag1_fields == <<"articulo_id", "tipo", "numero", "titulo", "texto", "image_caption", "keywords">>

rag2_fields == <<"descripcion", "tipo", "servicio", "categoria", "subcategoria", "fuente">>

S_General == <<"G", "e", "n", "e", "r", "a", "l">>
S_ART_0000 == <<"A", "R", "T", "-", "0", "0", "0", "0">>
S_ART == <<"A", "R", "T">>
S_Sin_titulo == <<"S", "i", "n", " ", "t", "í", "t", "u", "l", "o">>
S_Sin_especificar == <<"S", "i", "n", " ", "e", "s", "p", "e", "c", "i", "f", "i", "c", "a", "r">>
S_csv == <<"c", "s", "v">>
S_Registro_ == <<"R", "e", "g", "i", "s", "t", "r", "o", " ">>

\* Tokens of s.split(sep) for a one-character sep.
RECURSIVE SplitOn(_, _)
SplitOn(cs, sep) ==
    IF ~HasChar(cs, sep) THEN <<cs>>
    ELSE LET i == CHOOSE k \in 1..Len(cs) :
                      cs[k] = sep /\ \A j \in 1..(k - 1) : cs[j] # sep
         IN  <<SubSeq(cs, 1, i - 1)>> \o SplitOn(SubSeq(cs, i + 1, Len(cs)), sep)

\* ", ".join(tokens)
RECURSIVE JoinComma(_)
JoinComma(toks) ==
    IF Len(toks) = 0 THEN <<>>
    ELSE IF Len(toks) = 1 THEN toks[1]
    ELSE toks[1] \o <<",", " ">> \o JoinComma(Tail(toks))

\* A split that keeps the blanks around the tokens.
SplitStripJoin_unstripped(cs, sep) ==
    LET toks == SplitOn(cs, sep)
    IN  JoinComma(toks)

\* ", ".join([tag.strip() for tag in valor.split(sep)])
SplitStripJoin(cs, sep) ==
    LET toks == SplitOn(cs, sep)
    IN  JoinComma([i \in 1..Len(toks) |-> Strip(toks[i])])

\* _apply_transformation without the first test: a null or empty value goes
\* through the branch of its kind.
_apply_transformation_no_guard(valor, transformacion, valor_por_defecto, field_name) ==
    CASE transformacion = "copiar_tal_cual" ->
             IF valor # Null THEN py_str(valor) ELSE valor_por_defecto
      [] transformacion = "copiar_completo_sin_resumir" ->
             IF valor # Null THEN py_str(valor) ELSE valor_por_defecto
      [] transformacion = "copiar_si_existe_sino_null" ->
             IF py_truthy(valor) THEN py_str(valor) ELSE Null
      [] transformacion = "convertir_a_entero" ->
             IF py_int(valor).ok THEN Int_(py_int(valor).n)
             ELSE IF valor_por_defecto # Null THEN valor_por_defecto
             ELSE Int_(0)
      [] transformacion = "separar_por_punto_coma_unir_con_coma" ->
             IF valor.t = "str" /\ HasChar(valor.s, ";")
             THEN Str(SplitStripJoin(valor.s, ";"))
             ELSE IF valor.t = "str" /\ HasChar(valor.s, ",")
             THEN Str(SplitStripJoin(valor.s, ","))
             ELSE IF py_truthy(valor) THEN py_str(valor)
             ELSE valor_por_defecto
      [] OTHER -> IF valor # Null THEN py_str(valor) ELSE valor_por_defecto

\* One transformation kind applied to one source value.
_apply_transformation(valor, transformacion, valor_por_defecto, field_name) ==
    IF pd_isna(valor) \/ valor = Str(<<>>) THEN valor_por_defecto
    ELSE CASE transformacion = "copiar_tal_cual" -> py_str(valor)
           [] transformacion = "copiar_completo_sin_resumir" -> py_str(valor)
           [] transformacion = "copiar_si_existe_sino_null" ->
                IF py_truthy(valor) THEN py_str(valor) ELSE Null
           [] transformacion = "convertir_a_entero" ->
                IF py_int(valor).ok THEN Int_(py_int(valor).n)
                ELSE IF valor_por_defecto # Null THEN valor_por_defecto
                ELSE Int_(0)
           [] transformacion = "separar_por_punto_coma_unir_con_coma" ->
                IF valor.t = "str" /\ HasChar(valor.s, ";")
                THEN Str(SplitStripJoin(valor.s, ";"))
                ELSE IF valor.t = "str" /\ HasChar(valor.s, ",")
                THEN Str(SplitStripJoin(valor.s, ","))
                ELSE IF py_truthy(valor) THEN py_str(valor)
                ELSE valor_por_defecto
           [] OTHER -> py_str(valor)

\* The static per-schema default of a field.
_get_default_value(field, target_rag) ==
    IF target_rag = "rag1"
    THEN CASE field = "articulo_id" -> Str(S_ART_0000)
           [] field = "tipo" -> Str(S_General)
           [] field = "numero" -> Int_(0)
           [] field = "titulo" -> Str(S_Sin_titulo)
           [] field = "texto" -> Str(<<>>)
           [] OTHER -> Null
    ELSE CASE field = "descripcion" -> Str(<<>>)
           [] field = "tipo" -> Str(S_General)
           [] field = "servicio" -> Str(S_Sin_especificar)
           [] field = "categoria" -> Str(S_General)
           [] field = "subcategoria" -> Str(S_General)
           [] field = "fuente" -> Str(S_csv)
           [] OTHER -> Null

\* Direct lookup through the mapping: the value of the first source column
\* mapped to the field, else the default.  mapping is the ordered dict, a
\* sequence of <<source column, target field>> pairs.
_safe_get(record, mapping, field, default) ==
    LET hits == {i \in 1..Len(mapping) : mapping[i][2] = field}
    IN  IF hits = {} THEN default
        ELSE LET first == CHOOSE i \in hits : \A j \in hits : i <= j
                 source_col == mapping[first][1]
             IN  IF Len(source_col) > 0 /\ source_col \in DOMAIN record
                 THEN IF ~pd_isna(record[source_col]) THEN record[source_col]
                      ELSE default
                 ELSE default

_safe_get_int(record, mapping, field, default) ==
    LET value == _safe_get(record, mapping, field, Int_(default))
    IN  IF py_int(value).ok THEN Int_(py_int(value).n) ELSE Int_(default)

Rag1Keys == {"id", "articulo_id", "tipo", "numero", "titulo", "texto", "image_caption", "keywords", "embedding"}

Rag2Keys == {"id", "descripcion", "tipo", "servicio", "categoria", "subcategoria", "fuente", "embedding"}

SeqToSet(q) == {q[i] : i \in 1..Len(q)}

\* One target field under the rule set: the rule when the field has one, else
\* direct mapping with the static default.  A rule is the JSON value found
\* under the field: isobj says whether it is an object (rule.get exists).
RuleField(record, rules, column_mapping, field, target_rag) ==
    IF field \in DOMAIN rules
    THEN LET rule == rules[field]
             columna_origen == rule.columna_origen
             valor == IF py_truthy(columna_origen)
                      THEN (IF columna_origen.t = "str"
                            THEN DictGet(record, columna_origen.s) ELSE Null)
                      ELSE Null
         IN  _apply_transformation(valor, rule.transformacion, rule.valor_por_defecto, field)
    ELSE _safe_get(record, column_mapping, field, _get_default_value(field, target_rag))

\* rule.get(...) raises AttributeError when the value under a field is no object.
RulesRaise(rules, fields) ==
    \E f \in SeqToSet(fields) : f \in DOMAIN rules /\ ~rules[f].isobj

\* [ok, rec]: ok is FALSE when applying the rules to the row raises.
_apply_rules_to_rag1(record, rules, column_mapping, record_id) ==
    IF RulesRaise(rules, rag1_fields) THEN [ok |-> FALSE, rec |-> << >>]
    ELSE [ok |-> TRUE,
          rec |-> [k \in Rag1Keys |->
                     CASE k = "id" -> record_id
                       [] k = "embedding" -> Null
                       [] OTHER -> RuleField(record, rules, column_mapping, k, "rag1")]]

_apply_rules_to_rag2(record, rules, column_mapping, record_id) ==
    IF RulesRaise(rules, rag2_fields) THEN [ok |-> FALSE, rec |-> << >>]
    ELSE [ok |-> TRUE,
          rec |-> [k \in Rag2Keys |->
                     CASE k = "id" -> record_id
                       [] k = "embedding" -> Null
                       [] OTHER -> RuleField(record, rules, column_mapping, k, "rag2")]]

\* f"{index:04d}"
Pad4(k) ==
    LET d == NatToStr(k)
    IN  IF Len(d) >= 4 THEN d ELSE Rep("0", 4 - Len(d)) \o d

\* A direct mapping whose default numero is a counter of the Python process
\* (the number of the identifier) instead of the index of the row.
_map_to_rag1_counter(record, mapping, index, record_id) ==
    [k \in Rag1Keys |->
        CASE k = "id" -> record_id
          [] k = "articulo_id" -> _safe_get(record, mapping, k, Str(S_ART \o Pad4(index)))
          [] k = "tipo" -> _safe_get(record, mapping, k, Str(S_General))
          [] k = "numero" -> _safe_get_int(record, mapping, k, record_id.n)
          [] k = "titulo" -> _safe_get(record, mapping, k, Str(S_Sin_titulo))
          [] k = "texto" -> _safe_get(record, mapping, k, Str(<<>>))
          [] k = "image_caption" -> _safe_get(record, mapping, k, Null)
          [] k = "keywords" -> _safe_get(record, mapping, k, Null)
          [] OTHER -> Null]

\* Direct mapping of one row (the fallback after a JSON parse failure).
_map_to_rag1(record, mapping, index, record_id) ==
    [k \in Rag1Keys |->
        CASE k = "id" -> record_id
          [] k = "articulo_id" -> _safe_get(record, mapping, k, Str(S_ART \o Pad4(index)))
          [] k = "tipo" -> _safe_get(record, mapping, k, Str(S_General))
          [] k = "numero" -> _safe_get_int(record, mapping, k, index)
          [] k = "titulo" -> _safe_get(record, mapping, k, Str(S_Sin_titulo))
          [] k = "texto" -> _safe_get(record, mapping, k, Str(<<>>))
          [] k = "image_caption" -> _safe_get(record, mapping, k, Null)
          [] k = "keywords" -> _safe_get(record, mapping, k, Null)
          [] OTHER -> Null]

_map_to_rag2(record, mapping, index, record_id) ==
    [k \in Rag2Keys |->
        CASE k = "id" -> record_id
          [] k = "descripcion" ->
               _safe_get(record, mapping, k, Str(S_Registro_ \o NatToStr(index)))
          [] k = "tipo" -> _safe_get(record, mapping, k, Str(S_General))
          [] k = "servicio" -> _safe_get(record, mapping, k, Str(S_Sin_especificar))
          [] k = "categoria" -> _safe_get(record, mapping, k, Str(S_General))
          [] k = "subcategoria" -> _safe_get(record, mapping, k, Str(S_General))
          [] k = "fuente" -> _safe_get(record, mapping, k, Str(S_csv))
          [] OTHER -> Null]

\* ------------------------------------------------------------ target schemas

SMALLINT_MAX == 32767

\* An int field of the schema accepts a number, or a text that reads as one.
IntFieldValue(v) ==
    CASE v.t = "int" -> [ok |-> TRUE, n |-> v.n]
      [] v.t = "str" -> ParseInt(v.s)
      [] OTHER -> [ok |-> FALSE, n |-> 0]

OptionalStrOk(rec, k) == k \notin DOMAIN rec \/ rec[k] = Null \/ py_isstr(rec[k])

\* RAG1Schema(**rec) constructs (no ValidationError).
RAG1Schema(rec) ==
    /\ \A k \in {"id", "articulo_id", "tipo", "titulo", "texto"} :
          k \in DOMAIN rec /\ py_isstr(rec[k])
    /\ "numero" \in DOMAIN rec
    /\ IntFieldValue(rec["numero"]).ok
    /\ IntFieldValue(rec["numero"]).n >= 0
    /\ IntFieldValue(rec["numero"]).n <= SMALLINT_MAX
    /\ OptionalStrOk(rec, "image_caption")
    /\ OptionalStrOk(rec, "keywords")
    /\ "embedding" \in DOMAIN rec => rec["embedding"] = Null

\* RAG2Schema(**rec) constructs.
RAG2Schema(rec) ==
    /\ \A k \in {"id", "descripcion", "tipo", "servicio", "categoria", "subcategoria", "fuente"} :
          k \in DOMAIN rec /\ py_isstr(rec[k])
    /\ "embedding" \in DOMAIN rec => rec["embedding"] = Null

\* A record construction that returns the normalized record without building
\* the schema object.
_create_rag1_record_unvalidated(record, generate_embedding) ==
    LET numero == IF record["numero"] # Null THEN py_int(record["numero"])
                  ELSE [ok |-> TRUE, n |-> 0]
        normalized_record ==
            [k \in Rag1Keys |->
                CASE k = "numero" -> Int_(numero.n)
                  [] k \in {"image_caption", "keywords"} ->
                       IF py_truthy(record[k]) THEN py_str(record[k]) ELSE Null
                  [] k = "embedding" -> record[k]
                  [] OTHER -> py_str(record[k])]
    IN  [ok |-> TRUE, rec |-> normalized_record]

\* [ok, rec]: the dump of the schema object; ok is FALSE when int(...) or the
\* schema constructor raises.
_create_rag1_record(record, generate_embedding) ==
    LET numero == IF record["numero"] # Null THEN py_int(record["numero"])
                  ELSE [ok |-> TRUE, n |-> 0]
        normalized_record ==
            [k \in Rag1Keys |->
                CASE k = "numero" -> Int_(numero.n)
                  [] k \in {"image_caption", "keywords"} ->
                       IF py_truthy(record[k]) THEN py_str(record[k]) ELSE Null
                  [] k = "embedding" -> record[k]
                  [] OTHER -> py_str(record[k])]
    IN  IF numero.ok /\ RAG1Schema(normalized_record)
        THEN [ok |-> TRUE, rec |-> normalized_record]
        ELSE [ok |-> FALSE, rec |-> << >>]

_create_rag2_record(record, generate_embedding) ==
    LET normalized_record ==
            [k \in Rag2Keys |-> IF k = "embedding" THEN record[k] ELSE py_str(record[k])]
    IN  IF RAG2Schema(normalized_record)
        THEN [ok |-> TRUE, rec |-> normalized_record]
        ELSE [ok |-> FALSE, rec |-> << >>]

\* ------------------------------------------------------- Validator / Scorer
\* A float that is a quotient of two counts is kept as the pair [num, den].
\* For fewer than 16 records the float results of the source (the division,
\* the comparisons with 0.8 and 0.9, and round(..., 3)) equal the exact ones
\* computed here: there is no rounding tie below 16 records.

Ratio(a, b) == [num |-> a, den |-> b]

\* x >= p / q for a ratio x.
RatioGeq(x, p, q) == x.num * q >= p * x.den

\* Indices (0-based, as in the message "Registro idx") of the records that
\* fail schema construction.
FailingIndices(standardized_records, target_rag) ==
    {i \in 1..Len(standardized_records) :
        IF target_rag = "rag1" THEN ~RAG1Schema(standardized_records[i])
        ELSE ~RAG2Schema(standardized_records[i])}

\* The increasing sequence of the elements of a finite set of integers.
RECURSIVE SortedSeq(_)
SortedSeq(S) ==
    IF S = {} THEN <<>>
    ELSE LET m == CHOOSE x \in S : \A y \in S : x <= y
         IN  <<m>> \o SortedSeq(S \ {m})

\* validate with the threshold taken strictly (confidence_score > 0.8).
validate_strict(standardized_records, target_rag) ==
    IF Len(standardized_records) = 0
    THEN [is_valid |-> FALSE, confidence_score |-> Ratio(0, 1), errors |-> <<-1>>]
    ELSE LET total_count == Len(standardized_records)
             failing == FailingIndices(standardized_records, target_rag)
             valid_count == total_count - Cardinality(failing)
             confidence_score == Ratio(valid_count, total_count)
             errs == SortedSeq(failing)
         IN  [is_valid |-> 10 * valid_count > 8 * total_count,
              confidence_score |-> confidence_score,
              errors |-> [i \in 1..Len(errs) |-> errs[i] - 1]]

\* (is_valid, confidence_score, errors); an error is kept as the index of its
\* record, -1 standing for the message "No hay registros para validar".
validate(standardized_records, target_rag) ==
    IF Len(standardized_records) = 0
    THEN [is_valid |-> FALSE, confidence_score |-> Ratio(0, 1), errors |-> <<-1>>]
    ELSE LET total_count == Len(standardized_records)
             failing == FailingIndices(standardized_records, target_rag)
             valid_count == total_count - Cardinality(failing)
             confidence_score == Ratio(valid_count, total_count)
             errs == SortedSeq(failing)
         IN  [is_valid |-> RatioGeq(confidence_score, 8, 10),
              confidence_score |-> confidence_score,
              errors |-> [i \in 1..Len(errs) |-> errs[i] - 1]]

required_fields_rag1 == <<"id", "articulo_id", "tipo", "numero", "titulo", "texto">>

required_fields_rag2 == <<"id", "descripcion", "tipo", "servicio", "categoria", "subcategoria", "fuente">>

\* A missing-field test by truthiness: not record.get(field), which also
\* takes the number 0 for missing.
FieldMissing_falsy(record, field) ==
    field \notin DOMAIN record \/ record[field] = Null \/ record[field] = Str(<<>>)
    \/ record[field] = Int_(0)

\* field not in record or record[field] is None or record[field] == ""
FieldMissing(record, field) ==
    field \notin DOMAIN record \/ record[field] = Null \/ record[field] = Str(<<>>)

SHORT_DESCRIPTION == 20

\* _check_integrity that counts a description of exactly 20 characters as short.
_check_integrity_short20(records, target_rag) ==
    IF Len(records) = 0
    THEN [status |-> "empty", has_rate |-> FALSE, completeness_rate |-> Ratio(0, 1),
          complete_records |-> 0, total_records |-> 0,
          missing_fields |-> << >>, description_warnings |-> <<>>]
    ELSE LET required_fields == IF target_rag = "rag1" THEN required_fields_rag1
                                ELSE required_fields_rag2
             req == SeqToSet(required_fields)
             idx == 1..Len(records)
             missing_fields_count ==
                 [f \in req |-> Cardinality({i \in idx : FieldMissing(records[i], f)})]
             complete_records ==
                 Cardinality({i \in idx : \A f \in req : ~FieldMissing(records[i], f)})
             description_field == IF target_rag = "rag1" THEN "texto" ELSE "descripcion"
             empty_description_count ==
                 Cardinality({i \in idx :
                     /\ description_field \in DOMAIN records[i]
                     /\ \/ records[i][description_field] = Null
                        \/ records[i][description_field] = Str(<<>>)})
             short_description_count ==
                 Cardinality({i \in idx :
                     /\ description_field \in DOMAIN records[i]
                     /\ records[i][description_field].t = "str"
                     /\ Len(records[i][description_field].s) > 0
                     /\ Len(records[i][description_field].s) <= SHORT_DESCRIPTION})
             description_warnings ==
                 (IF empty_description_count > 0
                  THEN <<[kind |-> "vacio", count |-> empty_description_count]>>
                  ELSE <<>>)
                 \o (IF short_description_count > 0
                     THEN <<[kind |-> "muy corto", count |-> short_description_count]>>
                     ELSE <<>>)
             completeness_rate == Ratio(complete_records, Len(records))
         IN  [status |-> IF RatioGeq(completeness_rate, 9, 10) /\ description_warnings = <<>>
                         THEN "good" ELSE "needs_review",
              has_rate |-> TRUE,
              completeness_rate |-> completeness_rate,
              complete_records |-> complete_records,
              total_records |-> Len(records),
              missing_fields |-> [f \in {g \in req : missing_fields_count[g] > 0} |->
                                     missing_fields_count[f]],
              description_warnings |-> description_warnings]

\* The integrity report.  has_rate is FALSE for the report {"status": "empty"},
\* which has no other key; description_warnings is empty when the key is absent,
\* and a warning is kept as [kind, count].
_check_integrity(records, target_rag) ==
    IF Len(records) = 0
    THEN [status |-> "empty", has_rate |-> FALSE, completeness_rate |-> Ratio(0, 1),
          complete_records |-> 0, total_records |-> 0,
          missing_fields |-> << >>, description_warnings |-> <<>>]
    ELSE LET required_fields == IF target_rag = "rag1" THEN required_fields_rag1
                                ELSE required_fields_rag2
             req == SeqToSet(required_fields)
             idx == 1..Len(records)
             missing_fields_count ==
                 [f \in req |-> Cardinality({i \in idx : FieldMissing(records[i], f)})]
             complete_records ==
                 Cardinality({i \in idx : \A f \in req : ~FieldMissing(records[i], f)})
             description_field == IF target_rag = "rag1" THEN "texto" ELSE "descripcion"
             empty_description_count ==
                 Cardinality({i \in idx :
                     /\ description_field \in DOMAIN records[i]
                     /\ \/ records[i][description_field] = Null
                        \/ records[i][description_field] = Str(<<>>)})
             short_description_count ==
                 Cardinality({i \in idx :
                     /\ description_field \in DOMAIN records[i]
                     /\ records[i][description_field].t = "str"
                     /\ Len(records[i][description_field].s) > 0
                     /\ Len(records[i][description_field].s) < SHORT_DESCRIPTION})
             description_warnings ==
                 (IF empty_description_count > 0
                  THEN <<[kind |-> "vacio", count |-> empty_description_count]>>
                  ELSE <<>>)
                 \o (IF short_description_count > 0
                     THEN <<[kind |-> "muy corto", count |-> short_description_count]>>
                     ELSE <<>>)
             completeness_rate == Ratio(complete_records, Len(records))
         IN  [status |-> IF RatioGeq(completeness_rate, 9, 10) /\ description_warnings = <<>>
                         THEN "good" ELSE "needs_review",
              has_rate |-> TRUE,
              completeness_rate |-> completeness_rate,
              complete_records |-> complete_records,
              total_records |-> Len(records),
              missing_fields |-> [f \in {g \in req : missing_fields_count[g] > 0} |->
                                     missing_fields_count[f]],
              description_warnings |-> description_warnings]

validate_structure(standardized_records, target_rag) ==
    LET v == validate(standardized_records, target_rag)
    IN  [is_valid |-> v.is_valid,
         confidence_score |-> v.confidence_score,
         errors |-> v.errors,
         total_records |-> Len(standardized_records),
         valid_records |-> (Len(standardized_records) * v.confidence_score.num)
                              \div v.confidence_score.den,
         integrity |-> _check_integrity(standardized_records, target_rag)]

\* round(x, 3) of the ratio p / q (q > 0), in thousandths, ties to even.
RoundMilli(p, q) ==
    LET n == 1000 * p
        f == n \div q
        r == n % q
    IN  IF 2 * r > q THEN f + 1
        ELSE IF 2 * r < q THEN f
        ELSE IF f % 2 = 0 THEN f ELSE f + 1

\* calculate_quality_score with the two weights exchanged.
calculate_quality_score_swapped(validation_result) ==
    LET confidence == validation_result.confidence_score
        completeness == IF validation_result.integrity.has_rate
                        THEN validation_result.integrity.completeness_rate
                        ELSE Ratio(0, 1)
    IN  RoundMilli(4 * confidence.num * completeness.den
                     + 6 * completeness.num * confidence.den,
                   10 * confidence.den * completeness.den)

\* The blended quality score, in thousandths.
calculate_quality_score(validation_result) ==
    LET confidence == validation_result.confidence_score
        completeness == IF validation_result.integrity.has_rate
                        THEN validation_result.integrity.completeness_rate
                        ELSE Ratio(0, 1)
    IN  RoundMilli(6 * confidence.num * completeness.den
                     + 4 * completeness.num * confidence.den,
                   10 * confidence.den * completeness.den)

\* ----------------------------------------------------------------- datasets
\* A dataset (DataFrame) is [columns, rows]: the column names in order and the
\* rows, each a function from column name to value.  A column holding a text is
\* of dtype object; a column of numbers only is numeric.

EmptyDict == [x \in {} |-> Null]

IsObjectColumn(df, col) == \E i \in 1..Len(df.rows) : df.rows[i][col].t = "str"

\* df.empty: no rows or no columns.
DfEmpty(df) == Len(df.rows) = 0 \/ Len(df.columns) = 0

\* ---------------------------------------------------------------- File Reader

\* FileHandler.detect_file_type accepts .csv, .xlsx and .xls.
SupportedExt(ext) == ext \in {"csv", "xlsx", "xls"}

\* DataIngestion.ingest: "ok" with the dataset, or the ValueError it raises.
ingest(file) ==
    IF ~SupportedExt(file.ext) THEN [ok |-> FALSE, error |-> "tipo no soportado"]
    ELSE IF DfEmpty([columns |-> file.columns, rows |-> file.rows])
    THEN [ok |-> FALSE, error |-> "archivo vacio"]
    ELSE [ok |-> TRUE, error |-> ""]

\* -------------------------------------------------------------------- Cleaner

\* Characters of the model's alphabet outside [\w\s.,;:\-_] and the accented
\* letters, which remove_special_characters deletes.
SpecialChars == {"!", "?", "@", "#", "$", "(", ")", "/"}

RECURSIVE RemoveSpecial(_)
RemoveSpecial(cs) ==
    IF Len(cs) = 0 THEN cs
    ELSE IF cs[1] \in SpecialChars THEN RemoveSpecial(Tail(cs))
    ELSE <<cs[1]>> \o RemoveSpecial(Tail(cs))

\* One cell through clean_whitespace, normalize_encoding (which leaves
\* well-formed text unchanged) and remove_special_characters, in that order;
\* cells of numeric columns are untouched.
CleanCell(v, isobject) ==
    IF ~isobject THEN v
    ELSE LET stripped == IF v.t = "str" THEN Str(Strip(v.s)) ELSE v
         IN  IF pd_isna(stripped) THEN stripped
             ELSE Str(RemoveSpecial(py_str(stripped).s))

\* DataCleaning.clean with its defaults (special characters removed, missing
\* values kept).
clean(df) ==
    LET newcols == [i \in 1..Len(df.columns) |-> Strip(df.columns[i])]
    IN  [columns |-> newcols,
         rows |-> [r \in 1..Len(df.rows) |->
                     [c \in SeqToSet(newcols) |->
                        LET i == CHOOSE j \in 1..Len(newcols) : newcols[j] = c
                        IN  CleanCell(df.rows[r][df.columns[i]],
                                      IsObjectColumn(df, df.columns[i]))]]]

\* -------------------------------------------------------------- Column Mapper

UpperChars == <<"A", "B", "C", "D", "E", "F", "G", "H", "I", "J", "K", "L", "M", "N", "O", "P", "Q", "R", "S", "T", "U", "V", "W", "X", "Y", "Z">>
LowerChars == <<"a", "b", "c", "d", "e", "f", "g", "h", "i", "j", "k", "l", "m", "n", "o", "p", "q", "r", "s", "t", "u", "v", "w", "x", "y", "z">>

LowerChar(c) ==
    IF \E i \in 1..26 : UpperChars[i] = c
    THEN LowerChars[CHOOSE i \in 1..26 : UpperChars[i] = c]
    ELSE c

\* str.lower()
Lower(cs) == [i \in 1..Len(cs) |-> LowerChar(cs[i])]

\* The dict a literal of <<key, value>> pairs builds: a repeated key keeps the
\* place of its first occurrence and the value of its last.
DictOf(pairs) ==
    LET firsts == {i \in 1..Len(pairs) : \A j \in 1..(i - 1) : pairs[j][1] # pairs[i][1]}
        order == SortedSeq(firsts)
        lastval(k) == pairs[CHOOSE i \in 1..Len(pairs) :
                              pairs[i][1] = k /\ \A j \in (i + 1)..Len(pairs) : pairs[j][1] # k][2]
    IN  [n \in 1..Len(order) |-> <<pairs[order[n]][1], lastval(pairs[order[n]][1])>>]

\* The entries of the RAG1 table in the order they are written, a repeated
\* key included.
mapping_rules_rag1_literal ==
    <<
      <<<<"a", "r", "t", "i", "c", "u", "l", "o">>, "articulo_id">>, <<<<"a", "r", "t", "i", "c", "l", "e">>, "articulo_id">>,
      <<<<"d", "o", "c", "_", "r", "e", "f">>, "articulo_id">>, <<<<"d", "o", "c", "_", "i", "d">>, "articulo_id">>,
      <<<<"i", "d">>, "articulo_id">>, <<<<"r", "e", "f">>, "articulo_id">>,
      <<<<"t", "i", "p", "o">>, "tipo">>, <<<<"t", "y", "p", "e">>, "tipo">>,
      <<<<"c", "a", "t", "e", "g", "o", "r", "y">>, "tipo">>, <<<<"c", "a", "t", "e", "g", "o", "r", "i", "a">>, "tipo">>,
      <<<<"n", "u", "m", "e", "r", "o">>, "numero">>, <<<<"n", "u", "m">>, "numero">>,
      <<<<"s", "e", "c", "t", "i", "o", "n">>, "numero">>, <<<<"s", "e", "c", "c", "i", "o", "n">>, "numero">>,
      <<<<"t", "i", "t", "u", "l", "o">>, "titulo">>, <<<<"t", "i", "t", "l", "e">>, "titulo">>,
      <<<<"h", "e", "a", "d", "e", "r">>, "titulo">>, <<<<"e", "n", "c", "a", "b", "e", "z", "a", "d", "o">>, "titulo">>,
      <<<<"n", "a", "m", "e">>, "titulo">>, <<<<"n", "o", "m", "b", "r", "e">>, "titulo">>,
      <<<<"b", "o", "d", "y", "_", "c", "o", "n", "t", "e", "n", "t">>, "texto">>, <<<<"b", "o", "d", "y">>, "texto">>,
      <<<<"c", "o", "n", "t", "e", "n", "t">>, "texto">>, <<<<"t", "e", "x", "t", "o">>, "texto">>,
      <<<<"t", "e", "x", "t">>, "texto">>, <<<<"c", "o", "n", "t", "e", "n", "i", "d", "o">>, "texto">>,
      <<<<"d", "e", "s", "c", "r", "i", "p", "c", "i", "o", "n">>, "texto">>, <<<<"d", "e", "s", "c", "r", "i", "p", "t", "i", "o", "n">>, "texto">>,
      <<<<"d", "e", "t", "a", "l", "l", "e">>, "texto">>, <<<<"d", "e", "t", "a", "i", "l">>, "texto">>,
      <<<<"k", "e", "y", "w", "o", "r", "d", "s">>, "keywords">>, <<<<"t", "a", "g", "s">>, "keywords">>,
      <<<<"p", "a", "l", "a", "b", "r", "a", "s", "_", "c", "l", "a", "v", "e">>, "keywords">>, <<<<"e", "t", "i", "q", "u", "e", "t", "a", "s">>, "keywords">>,
      <<<<"i", "m", "a", "g", "e", "_", "c", "a", "p", "t", "i", "o", "n">>, "image_caption">>, <<<<"f", "i", "g", "_", "d", "e", "s", "c">>, "image_caption">>,
      <<<<"c", "a", "p", "t", "i", "o", "n">>, "image_caption">>, <<<<"f", "i", "g", "u", "r", "a">>, "image_caption">> >>

\* The RAG1 table as the dict the literal builds.
mapping_rules_rag1 == DictOf(mapping_rules_rag1_literal)

\* The entries of the RAG2 table in the order they are written, a repeated
\* key included.
mapping_rules_rag2_literal ==
    <<
      <<<<"b", "o", "d", "y", "_", "c", "o", "n", "t", "e", "n", "t">>, "descripcion">>, <<<<"b", "o", "d", "y">>, "descripcion">>,
      <<<<"d", "e", "s", "c", "r", "i", "p", "c", "i", "o", "n">>, "descripcion">>, <<<<"d", "e", "s", "c", "r", "i", "p", "t", "i", "o", "n">>, "descripcion">>,
      <<<<"t", "e", "x", "t", "o">>, "descripcion">>, <<<<"t", "e", "x", "t">>, "descripcion">>,
      <<<<"c", "o", "n", "t", "e", "n", "i", "d", "o">>, "descripcion">>, <<<<"d", "e", "t", "a", "l", "l", "e">>, "descripcion">>,
      <<<<"d", "e", "t", "a", "i", "l">>, "descripcion">>,
      <<<<"t", "i", "p", "o">>, "tipo">>, <<<<"t", "y", "p", "e">>, "tipo">>,
      <<<<"c", "a", "t", "e", "g", "o", "r", "y">>, "tipo">>, <<<<"c", "a", "t", "e", "g", "o", "r", "i", "a">>, "tipo">>,
      <<<<"s", "e", "r", "v", "i", "c", "i", "o">>, "servicio">>, <<<<"s", "e", "r", "v", "i", "c", "e">>, "servicio">>,
      <<<<"c", "a", "t", "e", "g", "o", "r", "i", "a">>, "categoria">>, <<<<"c", "a", "t", "e", "g", "o", "r", "y">>, "categoria">>,
      <<<<"s", "u", "b", "c", "a", "t", "e", "g", "o", "r", "i", "a">>, "subcategoria">>, <<<<"s", "u", "b", "c", "a", "t", "e", "g", "o", "r", "y">>, "subcategoria">>,
      <<<<"f", "u", "e", "n", "t", "e">>, "fuente">>, <<<<"s", "o", "u", "r", "c", "e">>, "fuente">>,
      <<<<"o", "r", "i", "g", "e", "n">>, "fuente">> >>

\* The RAG2 table as the dict the literal builds.
mapping_rules_rag2 == DictOf(mapping_rules_rag2_literal)

\* A keyword loop without the break: the last matching entry of the table wins.
KeywordField_last(col, rules) ==
    LET col_lower == Lower(col)
        hits == {i \in 1..Len(rules) : Contains(col_lower, rules[i][1])}
    IN  IF hits = {} THEN ""
        ELSE rules[CHOOSE i \in hits : \A j \in hits : j <= i][2]

\* The target field of the first keyword, in table order, found in the
\* lower-cased column name; "" when no keyword is found.
KeywordField(col, rules) ==
    LET col_lower == Lower(col)
        hits == {i \in 1..Len(rules) : Contains(col_lower, rules[i][1])}
    IN  IF hits = {} THEN ""
        ELSE rules[CHOOSE i \in hits : \A j \in hits : i <= j][2]

LONG_TEXT_MEAN == 50

SAMPLE_VALUES == 3

\* df[col].dropna().head(3): the first three non-null values of a column.
RECURSIVE NonNullValues(_, _, _)
NonNullValues(df, col, from) ==
    IF from > Len(df.rows) THEN <<>>
    ELSE (IF pd_isna(df.rows[from][col]) THEN <<>> ELSE <<df.rows[from][col]>>)
         \o NonNullValues(df, col, from + 1)

RECURSIVE SumLen(_)
SumLen(vals) ==
    IF Len(vals) = 0 THEN 0 ELSE Len(py_str(vals[1]).s) + SumLen(Tail(vals))

\* A long-text test with the threshold included: avg_length >= 50.
LongText_ge(df, col) ==
    LET all == NonNullValues(df, col, 1)
        sample_values == SubSeq(all, 1, IF Len(all) < SAMPLE_VALUES THEN Len(all)
                                        ELSE SAMPLE_VALUES)
    IN  Len(sample_values) > 0 /\ SumLen(sample_values) >= LONG_TEXT_MEAN * Len(sample_values)

\* avg_length > 50 over the sample (FALSE for an empty sample).
LongText(df, col) ==
    LET all == NonNullValues(df, col, 1)
        sample_values == SubSeq(all, 1, IF Len(all) < SAMPLE_VALUES THEN Len(all)
                                        ELSE SAMPLE_VALUES)
    IN  Len(sample_values) > 0 /\ SumLen(sample_values) > LONG_TEXT_MEAN * Len(sample_values)

MappedFields(mapping) == {mapping[i][2] : i \in 1..Len(mapping)}

MappedColumns(mapping) == {mapping[i][1] : i \in 1..Len(mapping)}

\* The second loop of _generate_column_mapping, from column number i on.
RECURSIVE LongTextPass(_, _, _, _)
LongTextPass(df, target_rag, mapping, i) ==
    IF i > Len(df.columns) THEN mapping
    ELSE LET col == df.columns[i]
             long_field == IF target_rag = "rag1" THEN "texto" ELSE "descripcion"
         IN  IF col \notin MappedColumns(mapping) /\ LongText(df, col)
                /\ long_field \notin MappedFields(mapping)
             THEN LongTextPass(df, target_rag, Append(mapping, <<col, long_field>>), i + 1)
             ELSE LongTextPass(df, target_rag, mapping, i + 1)

\* The first loop of _generate_column_mapping, from column number i on.
RECURSIVE KeywordPass(_, _, _)
KeywordPass(df, rules, i) ==
    IF i > Len(df.columns) THEN <<>>
    ELSE (IF KeywordField(df.columns[i], rules) = "" THEN <<>>
          ELSE <<(<<df.columns[i], KeywordField(df.columns[i], rules)>>)>>)
         \o KeywordPass(df, rules, i + 1)

\* The column mapping: the ordered dict source column -> target field.
_generate_column_mapping(df, target_rag) ==
    LET mapping_rules == IF target_rag = "rag1" THEN mapping_rules_rag1
                         ELSE mapping_rules_rag2
    IN  LongTextPass(df, target_rag, KeywordPass(df, mapping_rules, 1), 1)

\* ----------------------------------------------------------------- Normalizer

\* col.lower().strip().replace(' ', '_').replace('-', '_')
normalize_column_name(col) == ReplaceChar(ReplaceChar(Strip(Lower(col)), " ", "_"), "-", "_")

\* A rewriting of the mapping keys that leaves hyphens in place.
normalized_mapping_hyphen(column_mapping) ==
    DictOf([i \in 1..Len(column_mapping) |->
              <<ReplaceChar(Strip(Lower(column_mapping[i][1])), " ", "_"), column_mapping[i][2]>>])

\* The mapping with its keys rewritten to the normalized column names.
normalized_mapping(column_mapping) ==
    DictOf([i \in 1..Len(column_mapping) |->
              <<normalize_column_name(column_mapping[i][1]), column_mapping[i][2]>>])

\* mapping.get(col): the target field of a column, "" when it has none.
MappingGet(mapping, col) ==
    IF \E i \in 1..Len(mapping) : mapping[i][1] = col
    THEN mapping[CHOOSE i \in 1..Len(mapping) : mapping[i][1] = col][2]
    ELSE ""

S_nan == <<"n", "a", "n">>

\* One cell through infer_and_convert_types: the numero column becomes an
\* integer (0 for what is no number), every other mapped column a text with
\* the artifacts nan and None emptied.
ConvertCell(v, target_field) ==
    IF target_field = "" THEN v
    ELSE IF target_field = "numero"
    THEN (IF v.t = "int" THEN v
          ELSE IF v.t = "str" /\ ParseInt(v.s).ok THEN Int_(ParseInt(v.s).n)
          ELSE Int_(0))
    ELSE IF pd_isna(v) THEN Str(<<>>)
    ELSE IF py_str(v).s \in {S_nan, S_None} THEN Str(<<>>)
    ELSE py_str(v)

\* A normalize that returns the dataset without the structure validation.
normalize_unvalidated(df, column_mapping, target_rag) ==
    LET newcols == [i \in 1..Len(df.columns) |-> normalize_column_name(df.columns[i])]
        nmap == normalized_mapping(column_mapping)
        df_norm ==
            [columns |-> newcols,
             rows |-> [r \in 1..Len(df.rows) |->
                         [c \in SeqToSet(newcols) |->
                            LET i == CHOOSE j \in 1..Len(newcols) : newcols[j] = c
                            IN  ConvertCell(df.rows[r][df.columns[i]], MappingGet(nmap, c))]]]
    IN  [ok |-> TRUE, df |-> df_norm]

\* DataNormalization.normalize: [ok, df]; not ok is the ValueError raised for
\* an empty dataset.
normalize(df, column_mapping, target_rag) ==
    LET newcols == [i \in 1..Len(df.columns) |-> normalize_column_name(df.columns[i])]
        nmap == normalized_mapping(column_mapping)
        df_norm ==
            [columns |-> newcols,
             rows |-> [r \in 1..Len(df.rows) |->
                         [c \in SeqToSet(newcols) |->
                            LET i == CHOOSE j \in 1..Len(newcols) : newcols[j] = c
                            IN  ConvertCell(df.rows[r][df.columns[i]], MappingGet(nmap, c))]]]
    IN  [ok |-> ~DfEmpty(df_norm), df |-> df_norm]

\* df_clean[relevant_columns]: the mapped columns, in mapping order.
FilterColumns(df, column_mapping) ==
    LET relevant_columns == [i \in 1..Len(column_mapping) |-> column_mapping[i][1]]
    IN  [columns |-> relevant_columns,
         rows |-> [r \in 1..Len(df.rows) |->
                     [c \in SeqToSet(relevant_columns) |-> df.rows[r][c]]]]

\* -------------------------------------------------------------------- inputs

\* Largest number of records of a list handed to the Validator directly.
MaxRecords == 10

\* Largest length of such a list when drawn from all the sample records.
MaxMixed == 2

\* The row with the given values under the given columns.
Row(cols, vals) ==
    [c \in SeqToSet(cols) |-> vals[CHOOSE i \in 1..Len(cols) : cols[i] = c]]

\* All non-empty sequences of at most n elements of T.
SeqsUpTo(T, n) == UNION {[1..k -> T] : k \in 1..n}

ColsA == <<<<"d", "o", "c", "_", "r", "e", "f">>, <<"N", "u", "m">>, <<"h", "e", "a", "d", "e", "r">>, <<"b", "o", "d", "y", "_", "c", "o", "n", "t", "e", "n", "t">>>>

RowsA ==
    { Row(ColsA, <<Str(<<"A", "1">>), Int_(7), Str(<<"L", "e", "y", " ", "1", "!">>), Str(Rep("x", 60))>>),
      Row(ColsA, <<Str(<<"A", "2">>), Int_(40000), Str(<<"L", "e", "y", " ", "2">>), Str(Rep("y", 60))>>),
      Row(ColsA, <<Str(<<"A", "3">>), Str(<<"n", "/", "a">>), Str(<<" ", "T", " ">>), Null>>) }

ColsB == <<<<"D", "e", "s", "c", "r", "i", "p", "t", "i", "o", "n">>, <<"s", "e", "r", "v", "i", "c", "e">>, <<"C", "a", "t", "e", "g", "o", "r", "i", "a", " ">>>>

RowsB ==
    { Row(ColsB, <<Str(<<"F", "a", "l", "l", "a", " ", "d", "e", " ", "r", "e", "d", " ", "e", "n", " ", "l", "a", " ", "o", "f", "i", "c", "i", "n", "a">>), Str(<<"I", "T">>), Str(<<"R", "e", "d", "e", "s">>)>>),
      Row(ColsB, <<Str(<<"c", "o", "r", "t", "o">>), Str(<<"I", "T">>), Null>>) }

ColsC == <<<<"f", "o", "o">>>>

RowsC == { Row(ColsC, <<Str(Rep("z", 51))>>), Row(ColsC, <<Str(<<"z">>)>>) }

\* The number of rows of the one long file, longer than the sample of the
\* rule-inference prompt.
MaxLongRows == 12

\* A file of MaxLongRows different rows.
LongFile ==
    [ext |-> "csv", columns |-> ColsA,
     rows |-> [i \in 1..MaxLongRows |->
                 Row(ColsA, <<Str(<<"R">> \o NatToStr(i)), Int_(i),
                              Str(<<"L", "e", "y", " ">> \o NatToStr(i)), Str(Rep("x", 20 + i))>>)]]

ColsD == <<<<"T", "e", "x", "t", "o", " ", "L", "a", "r", "g", "o">>, <<"T", "i", "p", "o", "-", "D", "o", "c">>>>

\* A file whose column names hold a space and a hyphen.
FileD ==
    [ext |-> "csv", columns |-> ColsD,
     rows |-> <<Row(ColsD, <<Str(Rep("t", 60)), Str(<<"L", "e", "y">>)>>)>>]

\* The input files: their extension and parsed content.
Files ==
    {LongFile, FileD} \cup
    {[ext |-> "csv", columns |-> ColsA, rows |-> r] : r \in SeqsUpTo(RowsA, MaxRows)}
    \cup {[ext |-> "xlsx", columns |-> ColsB, rows |-> r] : r \in SeqsUpTo(RowsB, MaxRows)}
    \cup {[ext |-> "csv", columns |-> ColsC, rows |-> r] : r \in SeqsUpTo(RowsC, 1)}
    \cup {[ext |-> "txt", columns |-> ColsC, rows |-> <<Row(ColsC, <<Str(<<"z">>)>>)>>],
          [ext |-> "csv", columns |-> ColsA, rows |-> <<>>]}

\* A rule object of the LLM answer, and a value under a field that is no object.
Rule(src, kind, default) ==
    [isobj |-> TRUE, columna_origen |-> src, transformacion |-> kind,
     valor_por_defecto |-> default]

NotARule ==
    [isobj |-> FALSE, columna_origen |-> Null, transformacion |-> "",
     valor_por_defecto |-> Null]

\* The rule set of the prompt's example, on the columns of the sample files.
RulesFull1 ==
    [f \in SeqToSet(rag1_fields) |->
       CASE f = "articulo_id" -> Rule(Str(<<"d", "o", "c", "_", "r", "e", "f">>), "copiar_tal_cual", Null)
         [] f = "tipo" -> Rule(Str(<<"c", "a", "t", "e", "g", "o", "r", "y">>), "copiar_tal_cual", Str(S_General))
         [] f = "numero" -> Rule(Str(<<"n", "u", "m">>), "convertir_a_entero", Int_(0))
         [] f = "titulo" -> Rule(Str(<<"h", "e", "a", "d", "e", "r">>), "copiar_tal_cual", Str(S_Sin_titulo))
         [] f = "texto" -> Rule(Str(<<"b", "o", "d", "y", "_", "c", "o", "n", "t", "e", "n", "t">>), "copiar_completo_sin_resumir", Str(<<>>))
         [] f = "image_caption" -> Rule(Str(<<"f", "i", "g", "_", "d", "e", "s", "c">>), "copiar_si_existe_sino_null", Null)
         [] OTHER -> Rule(Str(<<"t", "a", "g", "s">>), "separar_por_punto_coma_unir_con_coma", Null)]

RulesFull2 ==
    [f \in SeqToSet(rag2_fields) |->
       CASE f = "descripcion" -> Rule(Str(<<"d", "e", "s", "c", "r", "i", "p", "t", "i", "o", "n">>), "copiar_completo_sin_resumir", Str(<<>>))
         [] f = "servicio" -> Rule(Str(<<"s", "e", "r", "v", "i", "c", "e">>), "copiar_tal_cual", Str(S_Sin_especificar))
         [] f = "categoria" -> Rule(Str(<<"c", "a", "t", "e", "g", "o", "r", "i", "a">>), "copiar_tal_cual", Str(S_General))
         [] f = "fuente" -> Rule(Null, "copiar_tal_cual", Str(S_csv))
         [] OTHER -> Rule(Null, "copiar_tal_cual", Str(S_General))]

\* Rule sets an LLM answer may hold: none, the full set, a numero copied from
\* a text column, a field whose value is no rule object, a single rule.
RuleSets(target_rag) ==
    IF target_rag = "rag1"
    THEN { EmptyDict,
           RulesFull1,
           [f \in {"numero"} |-> Rule(Str(<<"h", "e", "a", "d", "e", "r">>), "copiar_tal_cual", Int_(0))],
           [f \in {"texto"} |-> NotARule],
           [f \in {"texto"} |-> Rule(Str(<<"b", "o", "d", "y", "_", "c", "o", "n", "t", "e", "n", "t">>), "copiar_tal_cual", Null)] }
    ELSE { EmptyDict,
           RulesFull2,
           [f \in {"descripcion"} |-> NotARule] }

\* What the chat completion yields: the client raises; the content is null;
\* text that is no JSON; JSON that is no object; an object without the key
\* reglas_transformacion; an object with a null under it; an object with rules.
LLMResponses(target_rag) ==
    {[kind |-> k, rules |-> EmptyDict] :
        k \in {"raise", "null", "notjson", "nonobject", "object_nokey", "object_rules_null"}}
    \cup {[kind |-> "object_rules", rules |-> r] : r \in RuleSets(target_rag)}

NoResponse == [kind |-> "none", rules |-> EmptyDict]

\* Records handed to the Validator directly.
RecOk1 ==
    [k \in Rag1Keys |->
       CASE k = "id" -> Uuid(0)
         [] k = "articulo_id" -> Str(<<"A", "1">>)
         [] k = "tipo" -> Str(S_General)
         [] k = "numero" -> Int_(0)
         [] k = "titulo" -> Str(<<"L", "e", "y", " ", "1">>)
         [] k = "texto" -> Str(Rep("x", 20))
         [] OTHER -> Null]

RecOk2 ==
    [k \in Rag2Keys |->
       CASE k = "id" -> Uuid(0)
         [] k = "descripcion" -> Str(Rep("x", 20))
         [] k = "embedding" -> Null
         [] OTHER -> Str(S_General)]

\* rec without the key k.
DropKey(rec, k) == [j \in (DOMAIN rec) \ {k} |-> rec[j]]

\* A record that passes the schema and one that does not (lists of any length).
RecordsBasic(target_rag) ==
    IF target_rag = "rag1"
    THEN {RecOk1, [RecOk1 EXCEPT !["numero"] = Int_(SMALLINT_MAX + 1)]}
    ELSE {RecOk2, [RecOk2 EXCEPT !["tipo"] = Null]}

\* More shapes (short lists): an empty, a short and a null descriptive field,
\* a missing key, a missing descriptive field.
RecordsMixed(target_rag) ==
    RecordsBasic(target_rag) \cup
    (IF target_rag = "rag1"
     THEN {[RecOk1 EXCEPT !["texto"] = Str(<<>>)],
           [RecOk1 EXCEPT !["texto"] = Str(Rep("x", 19))],
           [RecOk1 EXCEPT !["texto"] = Null],
           DropKey(RecOk1, "titulo"),
           DropKey(RecOk1, "texto")}
     ELSE {[RecOk2 EXCEPT !["descripcion"] = Str(<<>>)],
           [RecOk2 EXCEPT !["descripcion"] = Str(Rep("x", 19))],
           DropKey(RecOk2, "fuente"),
           DropKey(RecOk2, "descripcion")})

RecordLists(target_rag) ==
    {<<>>} \cup SeqsUpTo(RecordsBasic(target_rag), MaxRecords)
    \cup SeqsUpTo(RecordsMixed(target_rag), MaxMixed)

\* Datasets handed to the Column Mapper directly.

\* Largest number of columns of such a dataset.
MaxMapCols == 3

\* Column names: some hold keywords of one table or of both, two hold none.
MapNames ==
    { <<"d", "o", "c", "_", "r", "e", "f">>, <<"h", "e", "a", "d", "e", "r">>, <<"b", "o", "d", "y", "_", "c", "o", "n", "t", "e", "n", "t">>, <<"T", "i", "t", "l", "e", "_", "I", "D">>, <<"D", "O", "C", "_", "I", "D">>,
      <<"C", "a", "t", "e", "g", "o", "r", "y">>, <<"t", "i", "p", "o", "_", "s", "e", "r", "v", "i", "c", "i", "o">>, <<"n", "o", "t", "e", "s">>, <<"e", "x", "t", "r", "a">> }

FreeNames == { <<"n", "o", "t", "e", "s">>, <<"e", "x", "t", "r", "a">> }

\* The values of one column, row by row: texts of the given lengths, nulls
\* and a number.
VecLong == <<Str(Rep("x", 60)), Null, Str(Rep("x", 43)), Str(Rep("x", 50))>>

VecEdge == <<Str(Rep("x", 60)), Str(Rep("x", 50)), Str(Rep("x", 40)), Str(Rep("x", 200))>>

VecNull == <<Null, Null, Null, Null>>

VecShort == <<Str(<<"x">>), Int_(7), Null, Null>>

VecOne == <<Null, Null, Null, Str(Rep("x", 51))>>

VecPool == {VecLong, VecEdge, VecNull, VecShort, VecOne}

\* One dataset per written keyword of the two tables: a single column with
\* the keyword as its name, holding short values.
KeywordDfs ==
    {[columns |-> <<k>>, rows |-> [i \in 1..Len(VecShort) |-> [c \in {k} |-> VecShort[i]]]] :
        k \in {mapping_rules_rag1_literal[i][1] : i \in 1..Len(mapping_rules_rag1_literal)}
               \cup {mapping_rules_rag2_literal[i][1] : i \in 1..Len(mapping_rules_rag2_literal)}}

\* The dataset of the given columns, vec giving the values of the columns
\* that are in FreeNames; the other columns hold VecLong.
MapperDf(cols, vec) ==
    [columns |-> cols,
     rows |-> [i \in 1..Len(VecLong) |->
                 [c \in SeqToSet(cols) |->
                    IF c \in FreeNames THEN vec[c][i] ELSE VecLong[i]]]]

MapperInputs ==
    UNION { {MapperDf(cols, vec) : vec \in [SeqToSet(cols) \cap FreeNames -> VecPool]} :
            cols \in {q \in SeqsUpTo(MapNames, MaxMapCols) :
                        \A i, j \in 1..Len(q) : i # j => q[i] # q[j]} }

\* ----------------------------------------------------------------- the state

VARIABLES
    entry,                \* who drives the components (see Init)
    pc,                   \* the position in the request
    target_rag,           \* "rag1" or "rag2"
    file,                 \* the input file
    df,                   \* the dataset as the last finished stage left it
    column_mapping,       \* the ordered dict source column -> target field
    stages,               \* the stages started so far, in order
    llm_calls,            \* number of chat completions invoked
    llm_response,         \* the answer of the chat completion
    prompt_sample,        \* the rows sent in the prompt
    rules_source,         \* "none", then "llm" (parsed rules) or "fallback"
    transformation_rules, \* the parsed rule set
    standardized_records, \* output of _transform_with_llm, row by row
    validated_records,    \* output of standardize, record by record
    row_idx,              \* next row / record of the running loop (1-based)
    uuid_next,            \* number of identifiers drawn from uuid4
    validation_result,    \* output of validate_structure
    quality_score,        \* output of calculate_quality_score, in thousandths
    response,             \* the StandardizationResponse returned
    outcome,              \* "pending", "response", "error", "validated", "mapped"
    error,                \* what was raised
    caught,               \* number of times the handler of process ran
    http_status,          \* status of the HTTP answer (0: none yet)
    fields,               \* the fields of the pipeline instance and its components
    other                 \* the suspended requests of the same event loop

vars == <<entry, pc, target_rag, file, df, column_mapping, stages, llm_calls,
          llm_response, prompt_sample, rules_source, transformation_rules,
          standardized_records, validated_records, row_idx, uuid_next,
          validation_result, quality_score, response, outcome, error, caught,
          http_status, fields, other>>

NoDf == [columns |-> <<>>, rows |-> <<>>]

NoFile == [ext |-> "", columns |-> <<>>, rows |-> <<>>]

NoValidation == validate_structure(<<>>, "rag1")

NoResult ==
    [success |-> FALSE, data |-> <<>>, validation |-> NoValidation, confidence_score |-> 0]

\* StandardizationPipeline.__init__ and the constructors of the components:
\* the fields every request served by the instance reads.
PipelineFields ==
    [ingestion |-> [file_handler |-> "FileHandler", image_extractor |-> "ImageExtractor"],
     cleaning |-> "DataCleaning",
     normalization |-> "DataNormalization",
     standardization |-> [llm_client |-> "AzureOpenAIClient", prompts |-> "PromptTemplates"],
     validation |-> "DataValidation",
     file_handler |-> "FileHandler"]

\* The number of positional arguments standardize declares after self
\* (df, target_rag, column_mapping, generate_embeddings) ...
DECLARED_ARGS == 4

\* ... and the number process passes at its call
\* (df_normalized, target_rag, column_mapping, generate_embeddings, images_by_row).
PROCESS_ARGS == 5

\* The number of positional arguments of the call of standardize.
CallArgs == IF entry \in {"process", "http"} THEN PROCESS_ARGS ELSE DECLARED_ARGS

\* entry = "process": StandardizationPipeline.process as the front ends call it.
\* entry = "http": process called by standardize_data, the POST /standardize
\*   handler of the HTTP front end.
\* entry = "components": a caller that drives the same components in the same
\*   order through their public methods and calls standardize with the
\*   parameters it declares.
\* entry = "validate": DataValidation.validate_structure and
\*   calculate_quality_score called on a list of records.
\* entry = "map": _generate_column_mapping called on a dataset.
Init ==
    /\ entry \in {"process", "http", "components", "validate", "map"}
    /\ target_rag \in {"rag1", "rag2"}
    /\ CASE entry = "validate" ->
              /\ file = NoFile
              /\ validated_records \in RecordLists(target_rag)
              /\ df = NoDf
              /\ pc = "validate"
         [] entry = "map" ->
              /\ file = NoFile
              /\ validated_records = <<>>
              /\ df \in MapperInputs \cup KeywordDfs
              /\ pc = "map"
         [] OTHER ->
              /\ file \in Files
              /\ validated_records = <<>>
              /\ df = NoDf
              /\ pc = IF entry = "http" THEN "http_check" ELSE "ingest"
    /\ column_mapping = <<>>
    /\ stages = <<>>
    /\ llm_calls = 0
    /\ llm_response = NoResponse
    /\ prompt_sample = <<>>
    /\ rules_source = "none"
    /\ transformation_rules = EmptyDict
    /\ standardized_records = <<>>
    /\ row_idx = 1
    /\ uuid_next = 0
    /\ validation_result = NoValidation
    /\ quality_score = 0
    /\ response = NoResult
    /\ outcome = "pending"
    /\ error = ""
    /\ caught = 0
    /\ http_status = 0
    /\ fields = PipelineFields
    /\ other = <<>>

\* The status codes of the HTTP front end.
HTTP_200_OK == 200

HTTP_400_BAD_REQUEST == 400

HTTP_500_INTERNAL_SERVER_ERROR == 500

\* ---------------------------------------------------------------- the stages

\* STEP 1: ingestion.  A structural error is raised to the handler of process.
Ingest ==
    /\ pc = "ingest"
    /\ stages' = Append(stages, "ingest")
    /\ IF ingest(file).ok
       THEN /\ df' = [columns |-> file.columns, rows |-> file.rows]
            /\ pc' = "clean"
            /\ error' = error
       ELSE /\ df' = df
            /\ pc' = "except"
            /\ error' = ingest(file).error
    /\ UNCHANGED <<http_status, caught, fields, other, entry, target_rag, file, column_mapping, llm_calls, llm_response,
                   prompt_sample, rules_source, transformation_rules,
                   standardized_records, validated_records, row_idx, uuid_next,
                   validation_result, quality_score, response, outcome>>

\* STEP 2: cleaning.
Clean ==
    /\ pc = "clean"
    /\ stages' = Append(stages, "clean")
    /\ df' = clean(df)
    /\ pc' = "map"
    /\ UNCHANGED <<http_status, caught, fields, other, entry, target_rag, file, column_mapping, llm_calls, llm_response,
                   prompt_sample, rules_source, transformation_rules,
                   standardized_records, validated_records, row_idx, uuid_next,
                   validation_result, quality_score, response, outcome, error>>

\* STEP 3: the column mapping, and the dataset reduced to the mapped columns.
MapColumns ==
    /\ pc = "map"
    /\ stages' = Append(stages, "map")
    /\ column_mapping' = _generate_column_mapping(df, target_rag)
    /\ IF entry = "map"
       THEN df' = df /\ pc' = "done" /\ outcome' = "mapped"
       ELSE df' = FilterColumns(df, column_mapping') /\ pc' = "normalize"
                /\ outcome' = outcome
    /\ UNCHANGED <<http_status, caught, fields, other, entry, target_rag, file, llm_calls, llm_response,
                   prompt_sample, rules_source, transformation_rules,
                   standardized_records, validated_records, row_idx, uuid_next,
                   validation_result, quality_score, response, error>>

\* STEP 4: normalization, then the mapping keys rewritten the same way.
Normalize ==
    /\ pc = "normalize"
    /\ stages' = Append(stages, "normalize")
    /\ IF normalize(df, column_mapping, target_rag).ok
       THEN /\ df' = normalize(df, column_mapping, target_rag).df
            /\ column_mapping' = normalized_mapping(column_mapping)
            /\ pc' = "transform"
            /\ error' = error
       ELSE /\ UNCHANGED <<df, column_mapping>>
            /\ pc' = "except"
            /\ error' = "validacion fallo"
    /\ UNCHANGED <<http_status, caught, fields, other, entry, target_rag, file, llm_calls, llm_response,
                   prompt_sample, rules_source, transformation_rules,
                   standardized_records, validated_records, row_idx, uuid_next,
                   validation_result, quality_score, response, outcome>>

\* A standardize that hands the rows to the Transformation Applier without
\* waiting for the rule inference.
CallStandardize_no_rules ==
    /\ pc = "transform"
    /\ stages' = Append(stages, "transform")
    /\ IF CallArgs > DECLARED_ARGS
       THEN pc' = "except" /\ error' = "TypeError"
       ELSE pc' = "apply" /\ error' = error
    /\ UNCHANGED <<http_status, caught, fields, other, entry, target_rag, file, df, column_mapping, llm_calls, llm_response,
                   prompt_sample, rules_source, transformation_rules,
                   standardized_records, validated_records, row_idx, uuid_next,
                   validation_result, quality_score, response, outcome>>

\* A call of standardize that keeps the target of the request in a field of
\* the shared component.
CallStandardize_stash ==
    /\ pc = "transform"
    /\ stages' = Append(stages, "transform")
    /\ fields' = [fields EXCEPT !.standardization = [llm_client |-> "AzureOpenAIClient",
                                                      prompts |-> target_rag]]
    /\ IF CallArgs > DECLARED_ARGS
       THEN pc' = "except" /\ error' = "TypeError"
       ELSE pc' = "llm" /\ error' = error
    /\ UNCHANGED <<http_status, caught, other, entry, target_rag, file, df, column_mapping,
                   llm_calls, llm_response,
                   prompt_sample, rules_source, transformation_rules,
                   standardized_records, validated_records, row_idx, uuid_next,
                   validation_result, quality_score, response, outcome>>

\* STEP 5: the call of standardize.  Python binds the arguments before the
\* body runs: more positional arguments than declared raise TypeError.
CallStandardize ==
    /\ pc = "transform"
    /\ stages' = Append(stages, "transform")
    /\ IF CallArgs > DECLARED_ARGS
       THEN pc' = "except" /\ error' = "TypeError"
       ELSE pc' = "llm" /\ error' = error
    /\ UNCHANGED <<http_status, caught, fields, other, entry, target_rag, file, df, column_mapping, llm_calls, llm_response,
                   prompt_sample, rules_source, transformation_rules,
                   standardized_records, validated_records, row_idx, uuid_next,
                   validation_result, quality_score, response, outcome>>

SAMPLE_ROWS == 10

\* A sample that is the whole dataset.
Sample_all(data_records) == data_records

\* data_records[:10]
Sample(data_records) ==
    SubSeq(data_records, 1,
           IF Len(data_records) < SAMPLE_ROWS THEN Len(data_records) ELSE SAMPLE_ROWS)

\* _transform_with_llm up to the awaited chat completion: the sample, the
\* prompt and the one call.  An exception of the client is not caught here.
LLMCall ==
    /\ pc = "llm"
    /\ prompt_sample' = Sample(df.rows)
    /\ llm_calls' = llm_calls + 1
    /\ \E resp \in LLMResponses(target_rag) :
          /\ llm_response' = resp
          /\ IF resp.kind = "raise"
             THEN pc' = "except" /\ error' = "chat completion"
             ELSE pc' = "parse" /\ error' = error
    /\ UNCHANGED <<http_status, caught, fields, other, entry, target_rag, file, df, column_mapping, stages,
                   rules_source, transformation_rules,
                   standardized_records, validated_records, row_idx, uuid_next,
                   validation_result, quality_score, response, outcome>>

\* A _transform_with_llm that asks the LLM again after an answer that is not
\* JSON, instead of falling back.
ParseRules_retry ==
    /\ pc = "parse"
    /\ row_idx' = 1
    /\ IF llm_response.kind \in {"null", "nonobject", "object_rules_null"}
       THEN /\ pc' = "except"
            /\ error' = llm_response.kind
            /\ UNCHANGED <<rules_source, transformation_rules>>
       ELSE IF llm_response.kind = "notjson"
       THEN /\ pc' = "llm"
            /\ UNCHANGED <<error, rules_source, transformation_rules>>
       ELSE /\ pc' = IF Len(df.rows) = 0 THEN "validate" ELSE "apply"
            /\ error' = error
            /\ rules_source' = "llm"
            /\ transformation_rules' =
                 IF llm_response.kind = "object_rules" THEN llm_response.rules
                 ELSE EmptyDict
    /\ UNCHANGED <<http_status, caught, fields, other, entry, target_rag, file, df, column_mapping, stages, llm_calls,
                   llm_response, prompt_sample,
                   standardized_records, validated_records, uuid_next,
                   validation_result, quality_score, response, outcome>>

\* json.loads(response) and result.get("reglas_transformacion", {}): only
\* json.JSONDecodeError is caught (direct-mapping fallback); a null content
\* (TypeError), JSON that is no object (AttributeError) and a null rule set
\* (TypeError at len) are raised out of standardize.
ParseRules ==
    /\ pc = "parse"
    /\ row_idx' = 1
    /\ IF llm_response.kind \in {"null", "nonobject", "object_rules_null"}
       THEN /\ pc' = "except"
            /\ error' = llm_response.kind
            /\ UNCHANGED <<rules_source, transformation_rules>>
       ELSE /\ pc' = IF Len(df.rows) = 0 THEN "validate" ELSE "apply"
            /\ error' = error
            /\ rules_source' = IF llm_response.kind = "notjson" THEN "fallback" ELSE "llm"
            /\ transformation_rules' =
                 IF llm_response.kind = "object_rules" THEN llm_response.rules
                 ELSE EmptyDict
    /\ UNCHANGED <<http_status, caught, fields, other, entry, target_rag, file, df, column_mapping, stages, llm_calls,
                   llm_response, prompt_sample,
                   standardized_records, validated_records, uuid_next,
                   validation_result, quality_score, response, outcome>>

\* The record one row gives: [ok, rec], under the parsed rules
\* (_apply_transformation_rules) or by direct mapping (_apply_direct_mapping).
TransformRow(record, index, record_id) ==
    IF rules_source = "llm"
    THEN (IF target_rag = "rag1"
          THEN _apply_rules_to_rag1(record, transformation_rules, column_mapping, record_id)
          ELSE _apply_rules_to_rag2(record, transformation_rules, column_mapping, record_id))
    ELSE [ok |-> TRUE,
          rec |-> IF target_rag = "rag1"
                  THEN _map_to_rag1(record, column_mapping, index, record_id)
                  ELSE _map_to_rag2(record, column_mapping, index, record_id)]

\* An identifier generated once per run instead of once per row.
_generate_id_once == Uuid(0)

\* uuid.uuid4(): the next identifier of the run, different from all before.
_generate_id == Uuid(uuid_next)

\* One iteration of the row loop of the Transformation Applier.  Nothing
\* catches an exception raised while a row is transformed.
ApplyRow ==
    /\ pc = "apply"
    /\ row_idx <= Len(df.rows)
    /\ uuid_next' = uuid_next + 1
    /\ LET r == TransformRow(df.rows[row_idx], row_idx - 1, _generate_id)
       IN  IF r.ok
           THEN /\ standardized_records' = Append(standardized_records, r.rec)
                /\ row_idx' = IF row_idx >= Len(df.rows) THEN 1 ELSE row_idx + 1
                /\ pc' = IF row_idx >= Len(df.rows) THEN "create" ELSE "apply"
                /\ error' = error
           ELSE /\ pc' = "except"
                /\ error' = "AttributeError"
                /\ UNCHANGED <<standardized_records, row_idx>>
    /\ UNCHANGED <<http_status, caught, fields, other, entry, target_rag, file, df, column_mapping, stages, llm_calls,
                   llm_response, prompt_sample, rules_source, transformation_rules,
                   validated_records, validation_result, quality_score, response, outcome>>

\* [ok, rec] of _create_rag1_record / _create_rag2_record.
CreateRecordOf(record) ==
    IF target_rag = "rag1" THEN _create_rag1_record(record, FALSE)
    ELSE _create_rag2_record(record, FALSE)

\* One iteration of step 5.3 of standardize: the record is constructed and
\* validated; when that raises, the record is logged and skipped.
CreateRecord ==
    /\ pc = "create"
    /\ row_idx <= Len(standardized_records)
    /\ LET r == CreateRecordOf(standardized_records[row_idx])
       IN  validated_records' = IF r.ok THEN Append(validated_records, r.rec)
                                ELSE validated_records
    /\ row_idx' = IF row_idx >= Len(standardized_records) THEN 1 ELSE row_idx + 1
    /\ pc' = IF row_idx >= Len(standardized_records) THEN "validate" ELSE "create"
    /\ UNCHANGED <<http_status, caught, fields, other, entry, target_rag, file, df, column_mapping, stages, llm_calls,
                   llm_response, prompt_sample, rules_source, transformation_rules,
                   standardized_records, uuid_next, validation_result, quality_score,
                   response, outcome, error>>

\* STEP 6: validation and the quality score.
Validate ==
    /\ pc = "validate"
    /\ stages' = Append(stages, "validate")
    /\ validation_result' = validate_structure(validated_records, target_rag)
    /\ quality_score' = calculate_quality_score(validation_result')
    /\ pc' = IF entry = "validate" THEN "done" ELSE "respond"
    /\ outcome' = IF entry = "validate" THEN "validated" ELSE outcome
    /\ UNCHANGED <<http_status, caught, fields, other, entry, target_rag, file, df, column_mapping, llm_calls,
                   llm_response, prompt_sample, rules_source, transformation_rules,
                   standardized_records, validated_records, row_idx, uuid_next,
                   response, error>>

\* The response object is built and returned.
Respond ==
    /\ pc = "respond"
    /\ stages' = Append(stages, "respond")
    /\ response' = [success |-> validation_result.is_valid,
                    data |-> validated_records,
                    validation |-> validation_result,
                    confidence_score |-> quality_score]
    /\ outcome' = "response"
    /\ pc' = IF entry = "http" THEN "http_return" ELSE "done"
    /\ UNCHANGED <<http_status, caught, fields, other, entry, target_rag, file, df, column_mapping, llm_calls,
                   llm_response, prompt_sample, rules_source, transformation_rules,
                   standardized_records, validated_records, row_idx, uuid_next,
                   validation_result, quality_score, error>>

\* A handler that answers with a minimal response instead of raising again.
Except_minimal ==
    /\ pc = "except"
    /\ outcome' = "response"
    /\ caught' = caught + 1
    /\ pc' = IF entry = "http" THEN "http_return" ELSE "done"
    /\ UNCHANGED <<http_status, fields, other, entry, target_rag, file, df, column_mapping, stages, llm_calls,
                   llm_response, prompt_sample, rules_source, transformation_rules,
                   standardized_records, validated_records, row_idx, uuid_next,
                   validation_result, quality_score, response, error>>

\* The single handler of process: whatever was raised in a stage is raised
\* again as "Error en pipeline: ..."; no response is returned.
Except ==
    /\ pc = "except"
    /\ outcome' = "error"
    /\ caught' = caught + 1
    /\ pc' = IF entry = "http" THEN "http_return" ELSE "done"
    /\ UNCHANGED <<http_status, fields, other, entry, target_rag, file, df, column_mapping, stages, llm_calls,
                   llm_response, prompt_sample, rules_source, transformation_rules,
                   standardized_records, validated_records, row_idx, uuid_next,
                   validation_result, quality_score, response, error>>

\* standardize_data up to its call of process: a file name without a
\* supported extension, or a content above the size limit, is answered with
\* HTTP 400 and the pipeline is not called.
HttpCheck ==
    /\ pc = "http_check"
    /\ \E too_large \in BOOLEAN :
          IF ~SupportedExt(file.ext) \/ too_large
          THEN http_status' = HTTP_400_BAD_REQUEST /\ pc' = "done"
          ELSE http_status' = http_status /\ pc' = "ingest"
    /\ UNCHANGED <<caught, fields, other, entry, target_rag, file, df, column_mapping, stages, llm_calls,
                   llm_response, prompt_sample, rules_source, transformation_rules,
                   standardized_records, validated_records, row_idx, uuid_next,
                   validation_result, quality_score, response, outcome, error>>

\* standardize_data after process: the result is returned, or whatever
\* exception process raised is answered with HTTP 500.
HttpReturn ==
    /\ pc = "http_return"
    /\ http_status' = IF outcome = "response" THEN HTTP_200_OK
                      ELSE HTTP_500_INTERNAL_SERVER_ERROR
    /\ pc' = "done"
    /\ UNCHANGED <<caught, fields, other, entry, target_rag, file, df, column_mapping, stages, llm_calls,
                   llm_response, prompt_sample, rules_source, transformation_rules,
                   standardized_records, validated_records, row_idx, uuid_next,
                   validation_result, quality_score, response, outcome, error>>

Next ==
    \/ HttpCheck
    \/ HttpReturn
    \/ Ingest
    \/ Clean
    \/ MapColumns
    \/ Normalize
    \/ CallStandardize
    \/ LLMCall
    \/ ParseRules
    \/ ApplyRow
    \/ CreateRecord
    \/ Validate
    \/ Respond
    \/ Except

Spec == Init /\ [][Next]_vars

\* ------------------------------------------------ two requests, one event loop

\* Two requests served by one pipeline instance on one event loop: one runs,
\* the other is suspended; the running one may be suspended, and the other
\* resumed, where process or standardize awaits.  uuid_next and fields belong
\* to the Python process; every other variable is local to a request.

\* The local state of the running request.
Locals ==
    [entry |-> entry, pc |-> pc, target_rag |-> target_rag, file |-> file, df |-> df,
     column_mapping |-> column_mapping, stages |-> stages, llm_calls |-> llm_calls,
     llm_response |-> llm_response, prompt_sample |-> prompt_sample,
     rules_source |-> rules_source, transformation_rules |-> transformation_rules,
     standardized_records |-> standardized_records,
     validated_records |-> validated_records, row_idx |-> row_idx,
     validation_result |-> validation_result, quality_score |-> quality_score,
     response |-> response, outcome |-> outcome, error |-> error, caught |-> caught,
     http_status |-> http_status]

\* The local state of a request that has not started.
NewRequest(e, rag, f) ==
    [entry |-> e, pc |-> IF e = "http" THEN "http_check" ELSE "ingest",
     target_rag |-> rag, file |-> f, df |-> NoDf,
     column_mapping |-> <<>>, stages |-> <<>>, llm_calls |-> 0,
     llm_response |-> NoResponse, prompt_sample |-> <<>>,
     rules_source |-> "none", transformation_rules |-> EmptyDict,
     standardized_records |-> <<>>, validated_records |-> <<>>, row_idx |-> 1,
     validation_result |-> NoValidation, quality_score |-> 0,
     response |-> NoResult, outcome |-> "pending", error |-> "", caught |-> 0,
     http_status |-> 0]

\* The requests of the two-request runs: one through the HTTP front end, three
\* through the components.
TwoInputs ==
    LET fa == [ext |-> "csv", columns |-> ColsA,
               rows |-> <<Row(ColsA, <<Str(<<"A", "2">>), Int_(40000), Str(<<"L", "e", "y", " ", "2">>), Str(Rep("y", 60))>>),
                          Row(ColsA, <<Str(<<"A", "3">>), Str(<<"n", "/", "a">>), Str(<<" ", "T", " ">>), Null>>)>>]
        fb == [ext |-> "xlsx", columns |-> ColsB,
               rows |-> <<Row(ColsB, <<Str(<<"c", "o", "r", "t", "o">>), Str(<<"I", "T">>), Null>>)>>]
    IN  {NewRequest("http", "rag1", fa), NewRequest("components", "rag1", fa),
         NewRequest("components", "rag2", fb), NewRequest("components", "rag1", fb)}

\* Where a request can be suspended: at the awaits of process, standardize
\* and _transform_with_llm (before the awaited call and at its return), and
\* when it has ended.
SuspensionPoints ==
    {"http_check", "ingest", "clean", "map", "normalize", "transform", "llm", "parse",
     "validate", "http_return", "done"}

\* The event loop suspends the running request and resumes the other.
Switch ==
    /\ other # <<>>
    /\ pc \in SuspensionPoints
    /\ other' = <<Locals>>
    /\ entry' = other[1].entry
    /\ pc' = other[1].pc
    /\ target_rag' = other[1].target_rag
    /\ file' = other[1].file
    /\ df' = other[1].df
    /\ column_mapping' = other[1].column_mapping
    /\ stages' = other[1].stages
    /\ llm_calls' = other[1].llm_calls
    /\ llm_response' = other[1].llm_response
    /\ prompt_sample' = other[1].prompt_sample
    /\ rules_source' = other[1].rules_source
    /\ transformation_rules' = other[1].transformation_rules
    /\ standardized_records' = other[1].standardized_records
    /\ validated_records' = other[1].validated_records
    /\ row_idx' = other[1].row_idx
    /\ validation_result' = other[1].validation_result
    /\ quality_score' = other[1].quality_score
    /\ response' = other[1].response
    /\ outcome' = other[1].outcome
    /\ error' = other[1].error
    /\ caught' = other[1].caught
    /\ http_status' = other[1].http_status
    /\ UNCHANGED <<uuid_next, fields>>

InitTwo ==
    /\ \E a \in TwoInputs :
          /\ entry = a.entry
          /\ pc = a.pc
          /\ target_rag = a.target_rag
          /\ file = a.file
    /\ \E b \in TwoInputs : other = <<b>>
    /\ df = NoDf
    /\ column_mapping = <<>>
    /\ stages = <<>>
    /\ llm_calls = 0
    /\ llm_response = NoResponse
    /\ prompt_sample = <<>>
    /\ rules_source = "none"
    /\ transformation_rules = EmptyDict
    /\ standardized_records = <<>>
    /\ validated_records = <<>>
    /\ row_idx = 1
    /\ uuid_next = 0
    /\ validation_result = NoValidation
    /\ quality_score = 0
    /\ response = NoResult
    /\ outcome = "pending"
    /\ error = ""
    /\ caught = 0
    /\ http_status = 0
    /\ fields = PipelineFields

NextTwo == Next \/ Switch

SpecTwo == InitTwo /\ [][NextTwo]_vars

\* ------------------------------------------- direct calls of the rule applier
\* _apply_rules_to_rag1 called on one row with one rule, for the field keywords.

\* The values a row holds under the column of the rule.
RuleValues ==
    { Null, Str(<<>>), Str(<<"a", "b", "c">>), Str(<<"a", ";", "b", ";", "c">>), Str(<<"a", ",", "b">>), Str(<<" ", "a", " ", ";", " ", "b", ",", "c", " ", ";">>),
      Str(<<"x", " ", ",", " ", "y">>), Str(<<" ">>), Str(<<"1", "2">>), Str(<<" ", "-", "7", " ">>), Str(<<"1", ".", "5">>), Str(<<"x", "1">>),
      Str(<<"0">>), Int_(0), Int_(42), Int_(0 - 3) }

\* The transformation kinds of the prompt and one the applier does not know.
RuleKinds ==
    { "copiar_tal_cual", "copiar_completo_sin_resumir", "copiar_si_existe_sino_null",
      "convertir_a_entero", "separar_por_punto_coma_unir_con_coma", "resumir" }

RuleDefaults == { Null, Str(<<"D">>), Int_(0), Int_(9) }

RuleColumn == <<"c">>

\* columna_origen: the column of the row, a column the row has not, none.
RuleSources == { Str(RuleColumn), Str(<<"z">>), Str(<<>>), Null }

InitRules ==
    /\ entry = "rules"
    /\ target_rag = "rag1"
    /\ file = NoFile
    /\ \E v \in RuleValues :
          df = [columns |-> <<RuleColumn>>, rows |-> <<Row(<<RuleColumn>>, <<v>>)>>]
    /\ \E src \in RuleSources, kind \in RuleKinds, default \in RuleDefaults :
          transformation_rules = [f \in {"keywords"} |-> Rule(src, kind, default)]
    /\ pc = "rules"
    /\ column_mapping = <<>>
    /\ stages = <<>>
    /\ llm_calls = 0
    /\ llm_response = NoResponse
    /\ prompt_sample = <<>>
    /\ rules_source = "llm"
    /\ standardized_records = <<>>
    /\ validated_records = <<>>
    /\ row_idx = 1
    /\ uuid_next = 0
    /\ validation_result = NoValidation
    /\ quality_score = 0
    /\ response = NoResult
    /\ outcome = "pending"
    /\ error = ""
    /\ caught = 0
    /\ http_status = 0
    /\ fields = PipelineFields
    /\ other = <<>>

\* The call: the record the rule set gives for the row; an exception ends it.
ApplyRules ==
    /\ pc = "rules"
    /\ LET r == _apply_rules_to_rag1(df.rows[1], transformation_rules, column_mapping, Uuid(0))
       IN  IF r.ok
           THEN /\ standardized_records' = <<r.rec>>
                /\ outcome' = "applied"
                /\ error' = error
           ELSE /\ standardized_records' = standardized_records
                /\ outcome' = "error"
                /\ error' = "AttributeError"
    /\ pc' = "done"
    /\ UNCHANGED <<http_status, caught, fields, other, entry, target_rag, file, df, column_mapping, stages,
                   llm_calls, llm_response, prompt_sample, rules_source, transformation_rules,
                   validated_records, row_idx, uuid_next, validation_result, quality_score,
                   response>>

NextRules == ApplyRules

SpecRules == InitRules /\ [][NextRules]_vars

\* The arguments and the result of the call of _apply_transformation.
RuleApplied == entry = "rules" /\ pc = "done" /\ outcome = "applied"

TheRule == transformation_rules["keywords"]

\* record.get(columna_origen) if columna_origen else None
valor ==
    IF TheRule.columna_origen = Str(RuleColumn) THEN df.rows[1][RuleColumn] ELSE Null

Result == standardized_records[1]["keywords"]

\* ================================================================== claims

StageOrder == <<"ingest", "clean", "map", "normalize", "transform", "validate", "respond">>

\* The request is a run of the pipeline (not a direct call of the Validator).
IsRequest == entry \in {"process", "http", "components"}

\* The request has ended.
Ended == IsRequest /\ pc = "done"

\* The body of standardize has run up to its return.
StandardizeReturned ==
    IsRequest /\ (pc \in {"validate", "respond"} \/ (pc = "done" /\ outcome = "response"))

\* The identifiers of a list of records are pairwise distinct.
DistinctIds(records) ==
    \A i, j \in 1..Len(records) : i # j => records[i]["id"] # records[j]["id"]

\* C1: a request of process whose file is valid and non-empty, with at least
\* one mapped column, and whose LLM answer (if any was asked for) is parseable,
\* passes through all the stages and ends with a response, not with the
\* "Error en pipeline" failure; the call of standardize is accepted.
C1_ProcessReturnsResponse ==
    ( /\ entry = "process"
      /\ pc = "done"
      /\ ingest(file).ok
      /\ column_mapping # <<>>
      /\ llm_response.kind \in {"none", "object_nokey", "object_rules"} )
    => (outcome = "response" /\ stages = StageOrder /\ error # "TypeError")

PastLLMCall ==
    IsRequest /\ (pc \in {"parse", "apply", "create", "validate", "respond"}
                  \/ (pc \in {"except", "done"} /\ llm_response.kind # "none"))

C4_LLMExceptionFallsBack ==
    (Ended /\ llm_response.kind = "raise")
    => (outcome = "response" /\ rules_source = "fallback")

\* C5: whatever text the LLM returns (no JSON, a null answer, JSON that is no
\* object, an object without the rules key, rules whose entries are no rule
\* objects), rule inference does not fail the request and one transformed
\* record per input row is returned.
C5_AnyAnswerTolerated ==
    (Ended /\ llm_response.kind \notin {"none", "raise"})
    => (outcome = "response" /\ Len(standardized_records) = Len(df.rows))

\* C6 as stated: the list returned by standardize has exactly N records for a
\* dataset of N rows, with pairwise distinct ids.
C6_ExactlyN ==
    StandardizeReturned
    => (Len(validated_records) = Len(df.rows) /\ DistinctIds(validated_records))

\* The records of standardize's list: the dumps of the transformed rows whose
\* record construction does not raise, in row order.
RECURSIVE Constructed(_, _)
Constructed(records, rag) ==
    IF Len(records) = 0 THEN <<>>
    ELSE LET r == IF rag = "rag1" THEN _create_rag1_record(records[1], FALSE)
                  ELSE _create_rag2_record(records[1], FALSE)
         IN  (IF r.ok THEN <<r.rec>> ELSE <<>>) \o Constructed(Tail(records), rag)

\* C6 (amended): whenever standardize returns, every row has been transformed,
\* the list holds one record for each row whose record passes schema
\* construction, in row order (so at most N, and exactly N when none fails),
\* and the ids of the list are pairwise distinct.
C6_AtMostN ==
    StandardizeReturned
    => /\ Len(standardized_records) = Len(df.rows)
       /\ Len(validated_records) <= Len(df.rows)
       /\ validated_records = Constructed(standardized_records, target_rag)
       /\ \A i \in 1..Len(validated_records) :
             \E j \in i..Len(df.rows) :
                validated_records[i]["id"] = standardized_records[j]["id"]
       /\ DistinctIds(validated_records)
       /\ DistinctIds(standardized_records)

\* A witness of C6: standardize returned one record for two rows.
C6_Witness ==
    StandardizeReturned /\ Len(df.rows) = 2 /\ Len(validated_records) = 1

\* C7: no bad row aborts the request: once the rows are being processed, a
\* throw while a rule is applied to a row or while its record is constructed
\* skips that row only, and the request goes on to validation.
C7_BadRowOnlySkipped ==
    (Ended /\ rules_source # "none")
    => (outcome = "response" /\ Len(standardized_records) = Len(df.rows))

\* The number of rows of the input file that have no record in the response.
SkippedRecords == Len(file.rows) - Len(response.data)

\* C8: a returned response never hides data loss: when its data has fewer
\* records than the file has rows, the errors or the description warnings of
\* its validation are non-empty (and so can account for the skipped records).
C8_NoSilentLoss ==
    (outcome = "response" /\ SkippedRecords > 0)
    => \/ response.validation.errors # <<>>
       \/ response.validation.integrity.description_warnings # <<>>

\* The Validator has run on validated_records.
Validated == pc \in {"respond", "done"} /\ outcome \in {"pending", "validated", "response"}
             /\ (\E i \in 1..Len(stages) : stages[i] = "validate")

\* The number of records of a list that pass target-schema construction.
PassCount(records, rag) ==
    Cardinality({i \in 1..Len(records) :
                   IF rag = "rag1" THEN RAG1Schema(records[i]) ELSE RAG2Schema(records[i])})

\* C9: validate returns confidence_score = (records passing schema
\* construction) / (records), 0 with is_valid false for the empty list, one
\* error per failing record (in record order), and is_valid exactly when the
\* confidence is at least 0.8, the boundary included: 8 of 10 give 0.8 and true.
C9_ConfidenceAndThreshold ==
    Validated =>
      LET n == Len(validated_records)
          ok == PassCount(validated_records, target_rag)
          v == validation_result
      IN  IF n = 0
          THEN v.confidence_score.num = 0 /\ v.is_valid = FALSE
          ELSE /\ v.confidence_score.num * n = ok * v.confidence_score.den
               /\ v.confidence_score.den > 0
               /\ v.is_valid = (10 * ok >= 8 * n)
               /\ Len(v.errors) = n - ok
               /\ \A i \in 1..Len(v.errors) :
                     /\ v.errors[i] \in 0..(n - 1)
                     /\ ~(IF target_rag = "rag1"
                          THEN RAG1Schema(validated_records[v.errors[i] + 1])
                          ELSE RAG2Schema(validated_records[v.errors[i] + 1]))
                     /\ \A j \in 1..(i - 1) : v.errors[j] < v.errors[i]
               /\ (n = 10 /\ ok = 8) => (v.is_valid /\ v.confidence_score = Ratio(8, 10))

\* A witness of C9: ten records of which eight pass, judged valid.
C9_Witness ==
    Validated /\ Len(validated_records) = 10
    /\ PassCount(validated_records, target_rag) = 8 /\ validation_result.is_valid

\* C10: the quality score is round(0.6 * confidence + 0.4 * completeness, 3):
\* the thousandth nearest to the blend; it lies in [0, 1]; it is 0.8 for
\* confidence 1.0 and completeness 0.5, and 0 when there are no records.
C10_QualityScore ==
    Validated =>
      LET c == validation_result.confidence_score
          has == validation_result.integrity.has_rate
          k == validation_result.integrity.completeness_rate
          q == quality_score
      IN  /\ q \in 0..1000
          /\ Len(validated_records) = 0 => (~has /\ q = 0)
          /\ Len(validated_records) > 0 =>
               /\ has
               \* | (0.6 c + 0.4 k) - q / 1000 | <= 1 / 2000
               /\ LET num == 2000 * (6 * c.num * k.den + 4 * k.num * c.den)
                             - 2 * q * 10 * c.den * k.den
                      half == 10 * c.den * k.den
                  IN  num <= half /\ 0 - num <= half
               /\ (c.num = c.den /\ 2 * k.num = k.den) => q = 800

\* A witness of C10: confidence 1.0 and completeness 0.5 scored 0.8.
C10_Witness ==
    /\ Validated
    /\ Len(validated_records) = 2
    /\ validation_result.confidence_score = Ratio(2, 2)
    /\ validation_result.integrity.completeness_rate = Ratio(1, 2)
    /\ quality_score = 800

\* The descriptive field of a target schema.
DescriptionField == IF target_rag = "rag1" THEN "texto" ELSE "descripcion"

\* The record has its descriptive field, and it is null, empty, or a
\* non-empty string of fewer than 20 characters.
PoorDescription(rec) ==
    /\ DescriptionField \in DOMAIN rec
    /\ LET d == rec[DescriptionField]
       IN  \/ d.t = "null"
           \/ d.t = "str" /\ Len(d.s) < 20

\* The number of records with every required field present, not null and
\* not the empty string.
CompleteCount(records) ==
    Cardinality({i \in 1..Len(records) :
        \A k \in 1..Len(IF target_rag = "rag1" THEN required_fields_rag1
                        ELSE required_fields_rag2) :
           LET f == (IF target_rag = "rag1" THEN required_fields_rag1
                     ELSE required_fields_rag2)[k]
           IN  /\ f \in DOMAIN records[i]
               /\ records[i][f].t # "null"
               /\ ~(records[i][f].t = "str" /\ Len(records[i][f].s) = 0)})

\* C11: the integrity status is "empty" exactly for zero records; otherwise
\* "good" exactly when completeness_rate >= 0.9 and there is no description
\* warning, else "needs_review".  A description warning exists exactly when
\* some record has a null or empty descriptive field or a non-empty
\* descriptive string of fewer than 20 characters (20 characters are not short).
C11_IntegrityStatus ==
    Validated =>
      LET n == Len(validated_records)
          g == validation_result.integrity
          warned == g.description_warnings # <<>>
      IN  /\ (g.status = "empty") = (n = 0)
          /\ g.status \in {"empty", "good", "needs_review"}
          /\ n > 0 =>
               /\ warned = (\E i \in 1..n : PoorDescription(validated_records[i]))
               /\ g.completeness_rate.num * n = CompleteCount(validated_records) * g.completeness_rate.den
               /\ (g.status = "good")
                    = (10 * CompleteCount(validated_records) >= 9 * n /\ ~warned)

\* A witness of C11: ten complete records but one, descriptions of exactly 20
\* characters, judged good at completeness 0.9.
C11_Witness ==
    /\ Validated
    /\ Len(validated_records) = 10
    /\ CompleteCount(validated_records) = 9
    /\ \A i \in 1..10 : DescriptionField \in DOMAIN validated_records[i]
                        /\ Len(validated_records[i][DescriptionField].s) = 20
    /\ validation_result.integrity.status = "good"

\* The Column Mapper has just returned column_mapping.
MapperReturned ==
    \/ entry = "map" /\ pc = "done"
    \/ IsRequest /\ pc = "normalize"

\* The dataset the Column Mapper was called on.
MapperInput ==
    IF entry = "map" THEN df
    ELSE clean([columns |-> file.columns, rows |-> file.rows])

\* The keyword table of the target schema, as mapping_rules.items() yields it.
KeywordTable == IF target_rag = "rag1" THEN mapping_rules_rag1 ELSE mapping_rules_rag2

\* The positions of the table whose keyword is a substring of the
\* lower-cased column name.
KeywordHits(col) ==
    {i \in 1..Len(KeywordTable) : Contains(Lower(col), KeywordTable[i][1])}

\* The target fields column_mapping holds for a column.
TargetsOf(col) ==
    {column_mapping[i][2] : i \in {j \in 1..Len(column_mapping) : column_mapping[j][1] = col}}

\* C12: for keyword matches the Column Mapper is a function of the column
\* names: each source column, compared case-insensitively, gets the target
\* field of the first entry of the keyword table (in table order) whose keyword
\* is a substring of its name, and is assigned once; doc_ref, header and
\* body_content give articulo_id, titulo and texto for RAG1; no LLM is asked.
C12_KeywordFirstMatch ==
    MapperReturned =>
      /\ llm_calls = 0
      /\ \A k \in 1..Len(MapperInput.columns) :
            LET col == MapperInput.columns[k]
                hits == KeywordHits(col)
            IN  /\ Cardinality({j \in 1..Len(column_mapping) : column_mapping[j][1] = col}) <= 1
                /\ hits # {} =>
                     TargetsOf(col) =
                       {KeywordTable[CHOOSE i \in hits : \A j \in hits : i <= j][2]}
      /\ target_rag = "rag1" =>
            /\ <<"d", "o", "c", "_", "r", "e", "f">> \in SeqToSet(MapperInput.columns)
                  => TargetsOf(<<"d", "o", "c", "_", "r", "e", "f">>) = {"articulo_id"}
            /\ <<"h", "e", "a", "d", "e", "r">> \in SeqToSet(MapperInput.columns)
                  => TargetsOf(<<"h", "e", "a", "d", "e", "r">>) = {"titulo"}
            /\ <<"b", "o", "d", "y", "_", "c", "o", "n", "t", "e", "n", "t">> \in SeqToSet(MapperInput.columns)
                  => TargetsOf(<<"b", "o", "d", "y", "_", "c", "o", "n", "t", "e", "n", "t">>) = {"texto"}

\* A witness of C12: the columns doc_ref, header, body_content mapped for RAG1.
C12_Witness ==
    /\ entry = "map" /\ pc = "done" /\ target_rag = "rag1"
    /\ df.columns = << <<"d", "o", "c", "_", "r", "e", "f">>, <<"h", "e", "a", "d", "e", "r">>,
                       <<"b", "o", "d", "y", "_", "c", "o", "n", "t", "e", "n", "t">> >>
    /\ column_mapping = << <<(<<"d", "o", "c", "_", "r", "e", "f">>), "articulo_id">>,
                           <<(<<"h", "e", "a", "d", "e", "r">>), "titulo">>,
                           <<(<<"b", "o", "d", "y", "_", "c", "o", "n", "t", "e", "n", "t">>), "texto">> >>

\* The request of the HTTP front end ended on a structural error: an
\* unsupported extension, an empty file or a file without columns, a dataset
\* empty after normalization.
StructuralError ==
    \/ ~SupportedExt(file.ext)
    \/ error \in {"tipo no soportado", "archivo vacio", "validacion fallo"}

\* C13: a structural error is fatal to the request and reaches the caller as a
\* 4xx error, apart from the 5xx of the generic pipeline failure.
C13_StructuralErrorIs4xx ==
    (entry = "http" /\ pc = "done" /\ StructuralError)
    => (outcome # "response" /\ http_status >= 400 /\ http_status < 500)

BothRequests == <<Locals>> \o other

\* A record without its generated id.
StripId(rec) == [rec EXCEPT !["id"] = Uuid(0)]

StripIds(records) == [i \in 1..Len(records) |-> StripId(records[i])]

\* What the caller of a request sees, the generated ids left out.
ResultOf(L) ==
    [outcome |-> L.outcome, error |-> L.error, data |-> StripIds(L.response.data),
     success |-> L.response.success, confidence_score |-> L.response.confidence_score,
     validation |-> L.response.validation]

\* The LLM is unavailable to a request: it is never asked, or the client
\* raises, or what comes back is no JSON (the one case in which
\* _transform_with_llm takes the direct-mapping fallback).
ForcedFallback(L) == L.llm_response.kind \in {"none", "raise", "notjson"}

\* C15: two runs of the pipeline on the same input and the same target
\* schema, the LLM unavailable in the same way in both, end in the same
\* outcome, and when they return a response their data lists are equal record
\* by record in every field except id.
C15_DeterministicFallback ==
    (other # <<>> /\ pc = "done" /\ other[1].pc = "done"
       /\ entry = other[1].entry /\ file = other[1].file
       /\ target_rag = other[1].target_rag
       /\ (http_status = HTTP_400_BAD_REQUEST) = (other[1].http_status = HTTP_400_BAD_REQUEST)
       /\ ForcedFallback(Locals) /\ llm_response.kind = other[1].llm_response.kind)
    => /\ outcome = other[1].outcome
       /\ error = other[1].error
       /\ Len(response.data) = Len(other[1].response.data)
       /\ \A i \in 1..Len(response.data) :
             \A k \in DOMAIN response.data[i] :
                k # "id" => response.data[i][k] = other[1].response.data[i][k]

\* A witness of C15: two runs on the same file, both on the fallback path,
\* returned a response with the same record under two different ids.
C15_Witness ==
    /\ other # <<>> /\ pc = "done" /\ other[1].pc = "done"
    /\ entry = other[1].entry /\ file = other[1].file /\ target_rag = other[1].target_rag
    /\ llm_response.kind = "notjson" /\ other[1].llm_response.kind = "notjson"
    /\ outcome = "response" /\ other[1].outcome = "response"
    /\ Len(response.data) = 1
    /\ response.data[1]["id"] # other[1].response.data[1]["id"]
    /\ StripIds(response.data) = StripIds(other[1].response.data)

\* What a request gets when it runs alone: the stages applied one after the
\* other to its file, its target and the answer of its LLM call.
AloneResult(e, rag, f, resp) ==
    LET Failure(err) ==
            [outcome |-> "error", error |-> err, data |-> <<>>, success |-> FALSE,
             confidence_score |-> 0, validation |-> NoValidation]
        cleaned == clean([columns |-> f.columns, rows |-> f.rows])
        m0 == _generate_column_mapping(cleaned, rag)
        nz == normalize(FilterColumns(cleaned, m0), m0, rag)
        m == normalized_mapping(m0)
        rules == IF resp.kind = "object_rules" THEN resp.rules ELSE EmptyDict
        row(i) == IF resp.kind = "notjson"
                  THEN [ok |-> TRUE,
                        rec |-> IF rag = "rag1" THEN _map_to_rag1(nz.df.rows[i], m, i - 1, Uuid(0))
                                ELSE _map_to_rag2(nz.df.rows[i], m, i - 1, Uuid(0))]
                  ELSE IF rag = "rag1" THEN _apply_rules_to_rag1(nz.df.rows[i], rules, m, Uuid(0))
                  ELSE _apply_rules_to_rag2(nz.df.rows[i], rules, m, Uuid(0))
    IN  IF ~ingest(f).ok THEN Failure(ingest(f).error)
        ELSE IF ~nz.ok THEN Failure("validacion fallo")
        ELSE IF e \in {"process", "http"} THEN Failure("TypeError")
        ELSE IF resp.kind = "raise" THEN Failure("chat completion")
        ELSE IF resp.kind \in {"null", "nonobject", "object_rules_null"} THEN Failure(resp.kind)
        ELSE IF \E i \in 1..Len(nz.df.rows) : ~row(i).ok THEN Failure("AttributeError")
        ELSE LET data == Constructed([i \in 1..Len(nz.df.rows) |-> row(i).rec], rag)
                 v == validate_structure(data, rag)
             IN  [outcome |-> "response", error |-> "", data |-> StripIds(data),
                  success |-> v.is_valid,
                  confidence_score |-> calculate_quality_score(v), validation |-> v]

\* C16: concurrent requests are independent: however two requests served by
\* one pipeline instance are interleaved at their suspension points, each
\* ends with the outcome and the data, up to the generated ids, it gets when
\* run alone; no field of the pipeline or of a component is written.
C16_RequestsIndependent ==
    /\ fields = PipelineFields
    /\ \A n \in 1..Len(BothRequests) :
          LET L == BothRequests[n]
          IN  L.pc = "done" /\ L.entry \in {"process", "http", "components"} =>
                IF L.http_status = HTTP_400_BAD_REQUEST
                THEN L.outcome = "pending" /\ L.stages = <<>>
                ELSE ResultOf(L) = AloneResult(L.entry, L.target_rag, L.file, L.llm_response)

\* A witness of C16: two requests with different files and targets, both
\* ended with a response, the later one having started before the earlier
\* one ended.
C16_Witness ==
    /\ other # <<>> /\ pc = "done" /\ other[1].pc = "done"
    /\ target_rag = "rag1" /\ other[1].target_rag = "rag2"
    /\ outcome = "response" /\ other[1].outcome = "response"
    /\ Len(response.data) = 1 /\ Len(other[1].response.data) = 1
    /\ response.data[1]["id"] = Uuid(1)

\* The record _apply_transformation_rules gives for a row under the empty
\* rule set: for every field the directly mapped value, else the static
\* default of _get_default_value.
NoRulesRecord(row) ==
    IF target_rag = "rag1"
    THEN _apply_rules_to_rag1(row, EmptyDict, column_mapping, Uuid(0)).rec
    ELSE _apply_rules_to_rag2(row, EmptyDict, column_mapping, Uuid(0)).rec

\* C17: a parse failure of the LLM answer is equivalent to an empty rule set:
\* the records of the JSON-parse-failure path (_apply_direct_mapping) equal, in
\* every field except id, the records _apply_transformation_rules produces
\* with no rules (the mapped value, else the static per-schema default).
C17_FallbackIsEmptyRules ==
    (IsRequest /\ rules_source = "fallback"
       /\ pc \in {"create", "validate", "respond", "done"}
       /\ Len(standardized_records) = Len(df.rows))
    => \A i \in 1..Len(df.rows) :
          \A k \in DOMAIN standardized_records[i] :
             k # "id" => standardized_records[i][k] = NoRulesRecord(df.rows[i])[k]

\* The normalized, filtered dataset of the request's file.
NormalizedDataset ==
    LET cleaned == clean([columns |-> file.columns, rows |-> file.rows])
        m0 == _generate_column_mapping(cleaned, target_rag)
    IN  normalize(FilterColumns(cleaned, m0), m0, target_rag).df

\* The record the parsed rule set gives for a row.
RulesRecord(row) ==
    IF target_rag = "rag1"
    THEN _apply_rules_to_rag1(row, transformation_rules, column_mapping, Uuid(0)).rec
    ELSE _apply_rules_to_rag2(row, transformation_rules, column_mapping, Uuid(0)).rec

\* C18: the rule-inference prompt is built from the first min(10, N) rows of
\* the normalized, filtered dataset, in their order; the rule set is applied
\* to all N rows: every row, also beyond the sample, is transformed with the
\* same rules, in order, and none is left out.
C18_SampleTenApplyAll ==
    (IsRequest /\ llm_calls > 0) =>
      LET rows == NormalizedDataset.rows
          n == IF Len(rows) < 10 THEN Len(rows) ELSE 10
      IN  /\ df.rows = rows
          /\ Len(prompt_sample) = n
          /\ \A i \in 1..n : prompt_sample[i] = rows[i]
          /\ rules_source = "llm" =>
                /\ Len(standardized_records) <= Len(rows)
                /\ \A i \in 1..Len(standardized_records) :
                      LET expected == RulesRecord(rows[i])
                      IN  \A k \in DOMAIN standardized_records[i] :
                              k # "id" => standardized_records[i][k] = expected[k]
                /\ pc \in {"create", "validate", "respond", "http_return", "done"}
                   /\ caught = 0
                      => Len(standardized_records) = Len(rows)

\* A witness of C18: twelve rows, ten of them in the prompt, all twelve
\* transformed under the rules of the LLM.
C18_Witness ==
    /\ IsRequest /\ pc = "done" /\ outcome = "response"
    /\ Len(df.rows) = 12 /\ Len(prompt_sample) = 10
    /\ rules_source = "llm" /\ transformation_rules = RulesFull1
    /\ Len(standardized_records) = 12
    /\ standardized_records[12]["articulo_id"] = Str(<<"R", "1", "2">>)

\* The columns a mapping sends to a target field.
SourcesOf(field) ==
    {column_mapping[j][1] : j \in {i \in 1..Len(column_mapping) : column_mapping[i][2] = field}}

\* The long-text field of the target schema.
LongTextField == IF target_rag = "rag1" THEN "texto" ELSE "descripcion"

\* C19: in every column mapping the Column Mapper returns, each source column
\* maps to at most one target field, no two source columns map to the same
\* target field, and at most one column maps to the long-text field.
C19_MappingInjective ==
    MapperReturned =>
      /\ \A k \in 1..Len(MapperInput.columns) :
            Cardinality(TargetsOf(MapperInput.columns[k])) <= 1
      /\ \A f \in MappedFields(column_mapping) : Cardinality(SourcesOf(f)) <= 1
      /\ Cardinality(SourcesOf(LongTextField)) <= 1

\* The rows of the first up-to-3 non-null values of a column of the mapper's input.
SampledRows(col) ==
    LET nonnull == {i \in 1..Len(MapperInput.rows) : MapperInput.rows[i][col] # Null}
    IN  {i \in nonnull : Cardinality({j \in nonnull : j < i}) < 3}

RECURSIVE TotalLen(_, _)
TotalLen(col, rows) ==
    IF rows = {} THEN 0
    ELSE LET i == CHOOSE r \in rows : TRUE
         IN  Len(py_str(MapperInput.rows[i][col]).s) + TotalLen(col, rows \ {i})

\* The mean string length of the sampled values of the column is above 50.
MeanAbove50(col) ==
    SampledRows(col) # {} /\
    TotalLen(col, SampledRows(col)) > 50 * Cardinality(SampledRows(col))

\* The columns no keyword matched, by position.
UnmatchedPositions == {k \in 1..Len(MapperInput.columns) : KeywordHits(MapperInput.columns[k]) = {}}

\* C20: a column no keyword matched is assigned to the long-text field exactly
\* when the mean string length of its first up-to-3 non-null values is above 50
\* and no column is mapped to that field yet, the columns taken in dataset
\* order; otherwise it stays unmapped, and the heuristic assigns at most one
\* column.
C20_LongTextFallback ==
    MapperReturned =>
      /\ \A k \in UnmatchedPositions :
            LET col == MapperInput.columns[k]
                taken ==
                  \/ \E j \in 1..Len(MapperInput.columns) :
                        /\ j \notin UnmatchedPositions
                        /\ TargetsOf(MapperInput.columns[j]) = {LongTextField}
                  \/ \E j \in UnmatchedPositions :
                        j < k /\ MeanAbove50(MapperInput.columns[j])
            IN  /\ (MeanAbove50(col) /\ ~taken) => TargetsOf(col) = {LongTextField}
                /\ ~(MeanAbove50(col) /\ ~taken) => TargetsOf(col) = {}
      /\ Cardinality({k \in UnmatchedPositions : TargetsOf(MapperInput.columns[k]) # {}}) <= 1

\* A witness of C20: of two unmatched columns of long values, only the first
\* is assigned.
C20_Witness ==
    /\ entry = "map" /\ pc = "done" /\ target_rag = "rag2"
    /\ df.columns = << <<"e", "x", "t", "r", "a">>, <<"n", "o", "t", "e", "s">> >>
    /\ df.rows[2][<<"e", "x", "t", "r", "a">>] = VecOne[2]
    /\ df.rows[4][<<"e", "x", "t", "r", "a">>] = VecOne[4]
    /\ df.rows[1][<<"n", "o", "t", "e", "s">>] = VecLong[1]
    /\ column_mapping = << <<(<<"e", "x", "t", "r", "a">>), "descripcion">> >>

\* The normalize stage has returned a dataset to the pipeline.
Normalized ==
    IsRequest /\ "normalize" \in SeqToSet(stages) /\ error # "validacion fallo"

\* The keys of the column mapping, in dict order.
MappingKeys == [i \in 1..Len(column_mapping) |-> column_mapping[i][1]]

\* C21: after the normalize stage the keys of the column mapping handed to
\* the transform stage are exactly the column names of the normalized
\* dataset, each the lower-cased, trimmed source name with spaces and hyphens
\* replaced by underscores, and every key can be looked up in every row.
C21_MappingKeysAreColumns ==
    Normalized =>
      /\ MappingKeys = df.columns
      /\ \A i \in 1..Len(df.columns) :
            \E k \in 1..Len(file.columns) :
               df.columns[i] = normalize_column_name(file.columns[k])
      /\ \A r \in 1..Len(df.rows) : \A i \in 1..Len(column_mapping) :
            column_mapping[i][1] \in DOMAIN df.rows[r]

\* A witness of C21: the columns 'Texto Largo' and 'Tipo-Doc' reach the
\* transform stage as texto_largo and tipo_doc, in the mapping and the dataset.
C21_Witness ==
    /\ IsRequest /\ pc = "transform" /\ target_rag = "rag1"
    /\ file.columns = ColsD
    /\ df.columns = << <<"t", "e", "x", "t", "o", "_", "l", "a", "r", "g", "o">>,
                       <<"t", "i", "p", "o", "_", "d", "o", "c">> >>
    /\ column_mapping = << <<(<<"t", "e", "x", "t", "o", "_", "l", "a", "r", "g", "o">>), "texto">>,
                           <<(<<"t", "i", "p", "o", "_", "d", "o", "c">>), "tipo">> >>

\* The datasets of a file the normalize stage can be called on: the cleaned
\* dataset with any number of its first columns and rows.
NormalizeInputs ==
    LET cleaned == clean([columns |-> file.columns, rows |-> file.rows])
    IN  {[columns |-> SubSeq(cleaned.columns, 1, nc),
          rows |-> [r \in 1..nr |->
                      [c \in {cleaned.columns[i] : i \in 1..nc} |-> cleaned.rows[r][c]]]] :
            nc \in 0..Len(cleaned.columns),
            nr \in 0..(IF Len(cleaned.rows) < 2 THEN Len(cleaned.rows) ELSE 2)}

RequiredFields ==
    SeqToSet(IF target_rag = "rag1" THEN required_fields_rag1 ELSE required_fields_rag2)

\* The record lacks the field: the key is absent, or its value is null or
\* the empty string.
Lacks(rec, f) ==
    \/ f \notin DOMAIN rec
    \/ rec[f].t = "null"
    \/ rec[f].t = "str" /\ Len(rec[f].s) = 0

\* The number of records of a list that lack the field.
LackCount(records, f) == Cardinality({i \in 1..Len(records) : Lacks(records[i], f)})

\* C23: for a non-empty record list, completeness_rate is the number of
\* records with every required field present, non-null and not the empty
\* string, over the number of records; missing_fields[f] is the number of
\* records missing required field f, and holds only fields with a non-zero
\* count; complete_records plus the number of records missing at least one
\* required field is total_records; a numero of 0 counts as present.
C23_CompletenessAndMissing ==
    (Validated /\ Len(validated_records) > 0) =>
      LET n == Len(validated_records)
          g == validation_result.integrity
          incomplete == Cardinality({i \in 1..n :
                           \E f \in RequiredFields : Lacks(validated_records[i], f)})
      IN  /\ g.has_rate
          /\ g.completeness_rate.num * n = (n - incomplete) * g.completeness_rate.den
          /\ g.complete_records = n - incomplete
          /\ g.total_records = n
          /\ g.complete_records + incomplete = g.total_records
          /\ DOMAIN g.missing_fields
               = {f \in RequiredFields : LackCount(validated_records, f) > 0}
          /\ \A f \in DOMAIN g.missing_fields :
                g.missing_fields[f] = LackCount(validated_records, f)

\* A witness of C23: a complete record whose numero is 0 next to a record
\* without titulo; titulo alone is reported missing.
C23_Witness ==
    /\ Validated /\ target_rag = "rag1" /\ Len(validated_records) = 2
    /\ validated_records[1] = RecOk1
    /\ validated_records[1]["numero"] = Int_(0)
    /\ "titulo" \notin DOMAIN validated_records[2]
    /\ validation_result.integrity.complete_records = 1
    /\ DOMAIN validation_result.integrity.missing_fields = {"titulo"}
    /\ validation_result.integrity.missing_fields["titulo"] = 1
    /\ validation_result.integrity.completeness_rate = Ratio(1, 2)

\* The required fields of the target schema that hold text.
RequiredTextFields == RequiredFields \ {"id", "numero"}

\* C24: a record whose required text field obtained no value in the transform
\* stage (the rule gave null) is reported as missing: the emitted field is
\* null or empty, carries no placeholder text, the record is not counted
\* complete, and integrity.missing_fields counts the field.
C24_NoValueIsMissing ==
    (IsRequest /\ Validated /\ rules_source = "llm") =>
      \A i \in 1..Len(standardized_records) : \A j \in 1..Len(validated_records) :
         \A f \in RequiredTextFields :
            (validated_records[j]["id"] = py_str(standardized_records[i]["id"])
             /\ standardized_records[i][f] = Null)
               => /\ Lacks(validated_records[j], f)
                  /\ f \in DOMAIN validation_result.integrity.missing_fields
                  /\ validation_result.integrity.complete_records < Len(validated_records)

\* C25: in _apply_transformation a source value that is null, missing (rule
\* without source column, or column absent from the row) or the empty string
\* yields the rule's default for every transformation kind, known or unknown;
\* for a non-empty value the kinds copiar_tal_cual, copiar_completo_sin_resumir
\* and every unknown kind yield the string form of the value.
C25_DefaultOrCopy ==
    RuleApplied =>
      /\ (valor = Null \/ valor = Str(<<>>)) => Result = TheRule.valor_por_defecto
      /\ (valor # Null /\ valor # Str(<<>>)
          /\ TheRule.transformacion \notin {"copiar_si_existe_sino_null", "convertir_a_entero",
                                            "separar_por_punto_coma_unir_con_coma"})
            => /\ Result.t = "str"
               /\ Result.s = (IF valor.t = "int" THEN IntToStr(valor.n) ELSE valor.s)

\* A witness of C25: an unknown kind copies the number 42 as the text 42.
C25_Witness ==
    /\ RuleApplied
    /\ TheRule.transformacion = "resumir"
    /\ TheRule.valor_por_defecto = Str(<<"D">>)
    /\ valor = Int_(42)
    /\ Result = Str(<<"4", "2">>)

\* The value is false in a condition: null (or missing), the empty string, zero.
NotTruthy(v) ==
    \/ v.t = "null"
    \/ v.t = "str" /\ Len(v.s) = 0
    \/ v.t = "int" /\ v.n = 0

\* C26: for the kind copiar_si_existe_sino_null a source value that is not
\* truthy (null, missing, empty string, zero) yields null and never the rule's
\* default, even when that default is not null; a truthy value yields its
\* string form.
C26_CopyIfExistsElseNull ==
    (RuleApplied /\ TheRule.transformacion = "copiar_si_existe_sino_null") =>
      /\ NotTruthy(valor) => Result = Null
      /\ ~NotTruthy(valor) =>
            /\ Result.t = "str"
            /\ Result.s = (IF valor.t = "int" THEN IntToStr(valor.n) ELSE valor.s)

\* The positions of the separator in the text, and the tokens between them.
SepPositions(cs, sep) == {i \in 1..Len(cs) : cs[i] = sep}

TokenAt(cs, sep, k) ==
    LET start == IF k = 1 THEN 0
                 ELSE CHOOSE p \in SepPositions(cs, sep) :
                         Cardinality({q \in SepPositions(cs, sep) : q < p}) = k - 2
        stop == IF k > Cardinality(SepPositions(cs, sep)) THEN Len(cs) + 1
                ELSE CHOOSE p \in SepPositions(cs, sep) :
                        Cardinality({q \in SepPositions(cs, sep) : q < p}) = k - 1
    IN  SubSeq(cs, start + 1, stop - 1)

\* The trimmed tokens of the text, joined with a comma and a blank.
RECURSIVE JoinedFrom(_, _, _)
JoinedFrom(cs, sep, k) ==
    IF k > Cardinality(SepPositions(cs, sep)) + 1 THEN <<>>
    ELSE (IF k = 1 THEN <<>> ELSE <<",", " ">>) \o Strip(TokenAt(cs, sep, k))
         \o JoinedFrom(cs, sep, k + 1)

\* C27: for the kind separar_por_punto_coma_unir_con_coma and a non-empty
\* string value: a value holding ';' is split on ';' only, else a value
\* holding ',' is split on ','; the tokens are trimmed and joined with ', ' in
\* their order ('a;b;c' gives 'a, b, c', 'a,b' gives 'a, b'); a value with
\* neither separator is returned unchanged.
C27_SplitJoin ==
    (RuleApplied /\ TheRule.transformacion = "separar_por_punto_coma_unir_con_coma"
       /\ valor.t = "str" /\ Len(valor.s) > 0) =>
      /\ Result.t = "str"
      /\ Result.s = (IF SepPositions(valor.s, ";") # {} THEN JoinedFrom(valor.s, ";", 1)
                     ELSE IF SepPositions(valor.s, ",") # {} THEN JoinedFrom(valor.s, ",", 1)
                     ELSE valor.s)
      /\ valor.s = <<"a", ";", "b", ";", "c">> => Result.s = <<"a", ",", " ", "b", ",", " ", "c">>
      /\ valor.s = <<"a", ",", "b">> => Result.s = <<"a", ",", " ", "b">>

\* A witness of C27: ' a ; b,c ;' is split on ';' alone and gives 'a, b,c, '.
C27_Witness ==
    /\ RuleApplied /\ TheRule.transformacion = "separar_por_punto_coma_unir_con_coma"
    /\ valor = Str(<<" ", "a", " ", ";", " ", "b", ",", "c", " ", ";">>)
    /\ Result = Str(<<"a", ",", " ", "b", ",", "c", ",", " ">>)

\* The text reads as an integer: blanks around an optional sign and digits.
ReadsAsInteger(cs) ==
    LET t == Strip(cs)
        d == IF Len(t) > 0 /\ t[1] \in {"+", "-"} THEN Tail(t) ELSE t
    IN  Len(d) > 0 /\ \A i \in 1..Len(d) : d[i] \in {"0", "1", "2", "3", "4", "5", "6", "7", "8", "9"}

\* C28: the kind convertir_a_entero never raises: a value that parses as an
\* integer yields that integer; any other non-empty value yields the rule's
\* default when it is not null and 0 when it is null, so a text that is no
\* number with default 0 yields 0.
C28_ToIntegerNeverRaises ==
    (entry = "rules" /\ pc = "done"
       /\ TheRule.transformacion = "convertir_a_entero"
       /\ valor # Null /\ valor # Str(<<>>)) =>
      /\ outcome = "applied" /\ error = ""
      /\ valor.t = "int" => Result = valor
      /\ (valor.t = "str" /\ ReadsAsInteger(valor.s)) =>
            /\ Result.t = "int"
            /\ IntToStr(Result.n) = (LET t == Strip(valor.s)
                                     IN  IF t[1] = "+" THEN Tail(t) ELSE t)
      /\ (valor.t = "str" /\ ~ReadsAsInteger(valor.s)) =>
            Result = (IF TheRule.valor_por_defecto # Null THEN TheRule.valor_por_defecto
                      ELSE Int_(0))

\* A witness of C28: the text x1 under a rule whose default is 0 gives 0, and
\* nothing is raised.
C28_Witness ==
    /\ RuleApplied /\ TheRule.transformacion = "convertir_a_entero"
    /\ valor = Str(<<"x", "1">>)
    /\ TheRule.valor_por_defecto = Int_(0)
    /\ Result = Int_(0)

\* The record is one the target schema accepts: its required fields are
\* texts, and for RAG1 numero is an integer from 0 to 32767.
AcceptedBySchema(rec) ==
    /\ \A f \in RequiredFields \ {"numero"} : f \in DOMAIN rec /\ rec[f].t \in {"str", "uuid"}
    /\ target_rag = "rag1" =>
          /\ "numero" \in DOMAIN rec /\ rec["numero"].t = "int"
          /\ rec["numero"].n >= 0 /\ rec["numero"].n <= 32767
          /\ \A f \in {"image_caption", "keywords"} : rec[f].t \in {"null", "str"}
    /\ rec["embedding"] = Null

\* C29: every record standardize returns passes target-schema validation in
\* the Validator; therefore, inside the pipeline, confidence_score is 1.0 and
\* is_valid and the success flag are true whenever at least one record is
\* emitted, however many rows were skipped, and they are 0.0 and false only
\* when no record is emitted, whatever the completeness and the quality score.
C29_EmittedRecordsValid ==
    IsRequest =>
      /\ \A i \in 1..Len(validated_records) : AcceptedBySchema(validated_records[i])
      /\ Validated =>
            LET v == validation_result
                some == Len(validated_records) > 0
            IN  /\ some => v.errors = << >>
                /\ v.is_valid = some
                /\ v.confidence_score.num = (IF some THEN v.confidence_score.den ELSE 0)
                /\ v.valid_records = Len(validated_records)
                /\ outcome = "response" =>
                      /\ response.success = some
                      /\ response.data = validated_records

\* A witness of C29: of two rows one is skipped (numero 40000) and the one
\* emitted has an empty texto; the response is a success with completeness 0.
C29_Witness ==
    /\ IsRequest /\ outcome = "response" /\ target_rag = "rag1"
    /\ Len(df.rows) = 2 /\ Len(validated_records) = 1
    /\ validated_records[1]["texto"] = Str(<<>>)
    /\ validation_result.integrity.complete_records = 0
    /\ validation_result.confidence_score = Ratio(1, 1)
    /\ response.success

\* The entries written in the keyword table of the target schema.
WrittenTable ==
    IF target_rag = "rag1" THEN mapping_rules_rag1_literal ELSE mapping_rules_rag2_literal

\* C30: every entry of the keyword tables is effective: a source column whose
\* name is exactly a written keyword is mapped to the target field written
\* with it (a RAG2 column subcategoria to subcategoria, a RAG2 column tipo to
\* tipo, a RAG1 column contenido to texto); no entry is shadowed by an earlier
\* keyword that is a substring of it, or overwritten by a repeated key.
C30_EveryEntryEffective ==
    (MapperReturned /\ entry = "map") =>
      \A k \in 1..Len(df.columns) : \A i \in 1..Len(WrittenTable) :
         WrittenTable[i][1] = df.columns[k] => TargetsOf(df.columns[k]) = {WrittenTable[i][2]}

====
